---- MODULE Spec2Model ----
(***************************************************************************)
(* Circuit simulator core (core.py): the circuit container with its        *)
(* property dictionaries as heap objects, the undo/redo snapshot history,  *)
(* and the parameter goal-seek.                                            *)
(*                                                                         *)
(* Python dictionaries are objects with identity: a Component holds        *)
(* references to its props and meta dictionaries, and so does every JSON   *)
(* projection built by Circuit.to_json.  The model keeps the dictionaries  *)
(* in `heap` and stores addresses wherever the code stores references.     *)
(* Unreferenced dictionaries are freed (as CPython does) and addresses are *)
(* normalised after every operation, so that two states differ only when   *)
(* their values or their sharing differ.                                   *)
(***************************************************************************)
EXTENDS Integers, Sequences, FiniteSets, TLC

\* ------------------------------------------------------------------ bounds
MaxCids == 1        \* identifiers handed out by Circuit.add
MaxMaxLen == 2      \* largest history capacity explored

VARIABLES
    heap,           \* Seq of dictionaries; a dictionary is a set of <<key, value>>
    cir,            \* Circuit.components: Seq of Component records, insertion order
    nextCid,        \* next identifier Circuit.add hands out (uuid4: never reused)
    max_len,        \* CircuitHistory.max_len
    undo_stack,     \* CircuitHistory.undo_stack: Seq of JSON projections
    redo_stack,     \* CircuitHistory.redo_stack
    lastRet,        \* what the last operation returned: "true", "false" or "raise"
    obs,            \* which observer follows this behaviour: "t3" or "t8"
    t3,             \* observer: record / edit / record / undo / redo
    t8,             \* observer: records, then all undos, then as many redos
    gi,             \* goal_seek_parameter: the arguments of the call
    gs,             \* goal_seek_parameter: its locals, result and position
    sv,             \* solve_circuit: the results of the calls made on cir
    ld              \* loading: the object handed to from_json / apply_json, the outcome

vars == <<heap, cir, nextCid, max_len, undo_stack, redo_stack, lastRet, obs, t3, t8, gi, gs,
          sv, ld>>

\* ------------------------------------------------------------ dictionaries
Has(d, k) == \E p \in d : p[1] = k

Get(d, k, dflt) == IF Has(d, k) THEN (CHOOSE p \in d : p[1] = k)[2] ELSE dflt

Put(d, k, v) == {p \in d : p[1] # k} \cup {<<k, v>>}

Last(s) == s[Len(s)]

Front(s) == SubSeq(s, 1, Len(s) - 1)

\* --------------------------------------------------------------- geometry
Abs(x) == IF x < 0 THEN -x ELSE x

\* int(round(s / 2)) for s >= 0: Python rounds halves to the even neighbour
RoundHalf(s) ==
    IF s % 2 = 0 THEN s \div 2
    ELSE IF ((s - 1) \div 2) % 2 = 0 THEN (s - 1) \div 2 ELSE (s + 1) \div 2

Placements == { << <<0, 0>>, <<2, 0>> >> }

Cursors == { <<0, 0>>, <<2, 1>> }

\* ---------------------------------------------------------------- Circuit
Component(cid, ctype, a, b, props, meta) ==
    [cid |-> cid, ctype |-> ctype, a |-> a, b |-> b, props |-> props, meta |-> meta]

\* list(p) of a tuple and tuple(l) of a list: a JSON array is not a tuple
list(p) == [items |-> p]

tuple(l) == l.items

\* Circuit.to_json: a new list of new records, but "props": c.props and
\* "meta": c.meta are the component's own dictionaries (the same addresses)

to_json(comps) ==
    [i \in 1..Len(comps) |->
        [cid |-> comps[i].cid, ctype |-> comps[i].ctype,
         a |-> list(comps[i].a), b |-> list(comps[i].b),
         props |-> comps[i].props, meta |-> comps[i].meta]]

\* the value of a JSON projection: what Python's == compares
JsonVal(obj, h) ==
    [i \in 1..Len(obj) |->
        [cid |-> obj[i].cid, ctype |-> obj[i].ctype, a |-> obj[i].a, b |-> obj[i].b,
         props |-> h[obj[i].props], meta |-> h[obj[i].meta]]]

JsonEq(o1, o2, h) == JsonVal(o1, h) = JsonVal(o2, h)

\* Circuit.apply_json: clear, then one new Component per record with
\* props=dict(...) and meta=dict(...), fresh copies at fresh addresses
apply_json_comps(obj, h) ==
    [i \in 1..Len(obj) |->
        Component(obj[i].cid, obj[i].ctype, tuple(obj[i].a), tuple(obj[i].b),
                  Len(h) + 2 * i - 1, Len(h) + 2 * i)]

\* it.get(key, {}): the dictionary a record names, {} when it has no such key
ItemDict(it, key, h) == IF key \in DOMAIN it THEN h[it[key]] ELSE {}

\* meta=dict(): the metadata of the record is not taken over
apply_json_heap_no_meta(obj, h) ==
    h \o [j \in 1..(2 * Len(obj)) |->
            IF j % 2 = 1 THEN ItemDict(obj[(j + 1) \div 2], "props", h)
                         ELSE {}]

apply_json_heap(obj, h) ==
    h \o [j \in 1..(2 * Len(obj)) |->
            IF j % 2 = 1 THEN ItemDict(obj[(j + 1) \div 2], "props", h)
                         ELSE ItemDict(obj[j \div 2], "meta", h)]

\* Circuit.delete_at: the first component with an endpoint or the rounded
\* midpoint at p
HitsDelete(c, p) ==
    \/ c.a = p
    \/ c.b = p
    \/ (RoundHalf(c.a[1] + c.b[1]) = p[1] /\ RoundHalf(c.a[2] + c.b[2]) = p[2])

delete_index(comps, p) ==
    IF \E i \in 1..Len(comps) : HitsDelete(comps[i], p)
    THEN CHOOSE i \in 1..Len(comps) :
            /\ HitsDelete(comps[i], p)
            /\ \A j \in 1..(i - 1) : ~HitsDelete(comps[j], p)
    ELSE 0

RemoveAt(s, i) == SubSeq(s, 1, i - 1) \o SubSeq(s, i + 1, Len(s))

\* Circuit.find_near: the first component, in insertion order, one of whose
\* points (a, b, floored midpoint) is at the least L1 distance, if that is <= 1
NearDist(c, p) ==
    LET d(q) == Abs(q[1] - p[1]) + Abs(q[2] - p[2])
        da == d(c.a)
        db == d(c.b)
        dm == d(<<(c.a[1] + c.b[1]) \div 2, (c.a[2] + c.b[2]) \div 2>>)
        m1 == IF db < da THEN db ELSE da
    IN IF dm < m1 THEN dm ELSE m1

find_near(comps, p) ==
    IF \E i \in 1..Len(comps) : NearDist(comps[i], p) <= 1
    THEN CHOOSE i \in 1..Len(comps) :
            /\ \A j \in 1..Len(comps) : NearDist(comps[i], p) <= NearDist(comps[j], p)
            /\ \A j \in 1..(i - 1) : NearDist(comps[j], p) > NearDist(comps[i], p)
    ELSE 0

CirVal == JsonVal(to_json(cir), heap)

StackVal(stack, h) == [i \in 1..Len(stack) |-> JsonVal(stack[i], h)]

\* ---------------------------------------------------------- observers
\* t3 follows the scenario "record in S1, edit to S2 # S1, record, undo, redo"
T3Idle == [st |-> "idle", s1 |-> <<>>, s2 |-> <<>>, ret |-> "none"]

T3Step(t, op, ret, val) ==
    CASE op = "record" ->
            IF t.st = "R1" /\ val # t.s1
            THEN [st |-> "R2", s1 |-> t.s1, s2 |-> val, ret |-> "none"]
            ELSE [st |-> "R1", s1 |-> val, s2 |-> <<>>, ret |-> "none"]
      [] op = "edit" ->
            IF t.st = "R1" THEN t
            ELSE IF t.st = "R2" THEN [st |-> "R1", s1 |-> t.s2, s2 |-> <<>>, ret |-> "none"]
            ELSE T3Idle
      [] op = "undo" ->
            IF t.st = "R2" THEN [t EXCEPT !.st = "U", !.ret = ret] ELSE T3Idle
      [] op = "redo" ->
            IF t.st = "U" /\ t.ret = "true" THEN [t EXCEPT !.st = "UR", !.ret = ret] ELSE T3Idle
      [] OTHER -> T3Idle

\* a UI handler that edits in place and records counts as an edit and a record
T3Next(t, op, ret, val) ==
    IF op = "toggle" THEN T3Step(T3Step(t, "edit", ret, val), "record", ret, val)
    ELSE T3Step(t, op, ret, val)

\* t8 follows "records and edits only, ending with a record; undo until it
\* returns false (k times); redo k times"
T8Fresh ==
    [ph |-> "rec", afterRec |-> FALSE, k |-> 0, rem |-> 0, S |-> <<>>, U0 |-> <<>>,
     bad |-> FALSE]

T8Off == [T8Fresh EXCEPT !.ph = "off"]

T8Next(t, op, ret, valBefore, undoBefore) ==
    CASE op = "clear" -> T8Fresh
      [] op \in {"edit", "record", "toggle"} ->
            IF t.ph = "rec" THEN [t EXCEPT !.afterRec = (op # "edit")] ELSE T8Off
      [] op = "undo" ->
            IF t.ph = "rec" /\ t.afterRec
            THEN [ph |-> IF ret = "true" THEN "undo" ELSE "done", afterRec |-> FALSE,
                  k |-> IF ret = "true" THEN 1 ELSE 0,
                  rem |-> 0, S |-> valBefore, U0 |-> undoBefore, bad |-> FALSE]
            ELSE IF t.ph = "undo"
            THEN IF ret = "true" THEN [t EXCEPT !.k = t.k + 1]
                 ELSE [t EXCEPT !.ph = "redo", !.rem = t.k]
            ELSE T8Off
      [] op = "redo" ->
            IF t.ph = "redo"
            THEN IF ret # "true" THEN [t EXCEPT !.ph = "done", !.bad = TRUE]
                 ELSE IF t.rem = 1 THEN [t EXCEPT !.ph = "done", !.rem = 0]
                 ELSE [t EXCEPT !.rem = t.rem - 1]
            ELSE T8Off
      [] OTHER -> T8Off

Observe(op, ret) ==
    /\ UNCHANGED <<gi, gs, sv, ld>>
    /\ lastRet' = ret
    /\ obs' = obs
    /\ t3' = IF obs = "t3" THEN T3Next(t3, op, ret, JsonVal(to_json(cir'), heap')) ELSE t3
    /\ t8' = IF obs = "t8"
             THEN T8Next(t8, op, ret, CirVal, StackVal(undo_stack, heap))
             ELSE t8

\* ----------------------------------------------------- heap normalisation
\* the dictionary references of a component list or JSON projection, in order
Refs(obj) ==
    [j \in 1..(2 * Len(obj)) |->
        IF j % 2 = 1 THEN obj[(j + 1) \div 2].props ELSE obj[j \div 2].meta]

RECURSIVE Concat(_)
Concat(ss) == IF ss = <<>> THEN <<>> ELSE Head(ss) \o Concat(Tail(ss))

RECURSIVE Dedup(_, _)
Dedup(s, acc) ==
    IF s = <<>> THEN acc
    ELSE Dedup(Tail(s), IF \E i \in 1..Len(acc) : acc[i] = Head(s)
                        THEN acc ELSE Append(acc, Head(s)))

LiveOrder(c, u, r) ==
    Dedup(Refs(c) \o Concat([i \in 1..Len(u) |-> Refs(u[i])])
                  \o Concat([i \in 1..Len(r) |-> Refs(r[i])]), <<>>)

NewAddr(order, a) == CHOOSE j \in 1..Len(order) : order[j] = a

Rename(obj, order) ==
    [i \in 1..Len(obj) |->
        [obj[i] EXCEPT !.props = NewAddr(order, @), !.meta = NewAddr(order, @)]]

\* the state after an operation that leaves heap h, components c and stacks u, r
Commit(h, c, u, r) ==
    \E order \in {LiveOrder(c, u, r)} :
    /\ heap' = [j \in 1..Len(order) |-> h[order[j]]]
    /\ cir' = Rename(c, order)
    /\ undo_stack' = [i \in 1..Len(u) |-> Rename(u[i], order)]
    /\ redo_stack' = [i \in 1..Len(r) |-> Rename(r[i], order)]

\* ------------------------------------------------------------ edit actions
\* Circuit.add(ctype, a, b, **props): props=dict(props), meta a new empty dict
add(pl) ==
    /\ nextCid <= MaxCids
    /\ Commit(heap \o <<{<<"state", 1>>}, {}>>,
              Append(cir, Component(nextCid, "switch_spst", pl[1], pl[2],
                                    Len(heap) + 1, Len(heap) + 2)),
              undo_stack, redo_stack)
    /\ nextCid' = nextCid + 1
    /\ UNCHANGED max_len
    /\ Observe("edit", "true")

delete_at(p) ==
    /\ delete_index(cir, p) # 0
    /\ Commit(heap, RemoveAt(cir, delete_index(cir, p)), undo_stack, redo_stack)
    /\ UNCHANGED <<nextCid, max_len>>
    /\ Observe("edit", "true")

\* an in-place property edit of a live component: comp.props["state"] = v
SetProp(i, v) ==
    /\ i \in 1..Len(cir)
    /\ Commit([heap EXCEPT ![cir[i].props] = Put(@, "state", v)],
              cir, undo_stack, redo_stack)
    /\ UNCHANGED <<nextCid, max_len>>
    /\ Observe("edit", "true")

\* --------------------------------------------------------- CircuitHistory
can_undo_one == Len(undo_stack) >= 1

can_undo == Len(undo_stack) >= 2

can_redo == Len(redo_stack) > 0

Trim_off(s) == s

Trim(s) == IF Len(s) > max_len THEN SubSeq(s, Len(s) - max_len + 1, Len(s)) ELSE s

\* CircuitHistory.record on heap h: the stacks it leaves
RecordSame(h) ==
    undo_stack # <<>> /\ JsonEq(Last(undo_stack), to_json(cir), h)

RecordUndo(h) ==
    IF RecordSame(h) THEN undo_stack ELSE Trim(Append(undo_stack, to_json(cir)))

RecordRedo_keep(h) == redo_stack

RecordRedo(h) == IF RecordSame(h) THEN redo_stack ELSE <<>>

record ==
    /\ Commit(heap, cir, RecordUndo(heap), RecordRedo(heap))
    /\ UNCHANGED <<nextCid, max_len>>
    /\ Observe("record", "true")

clear ==
    /\ Commit(heap, cir, <<>>, <<>>)
    /\ UNCHANGED <<nextCid, max_len>>
    /\ Observe("clear", "true")

\* undo that applies the popped snapshot instead of the new top
undo_apply_cur ==
    /\ UNCHANGED <<nextCid, max_len>>
    /\ IF ~can_undo
       THEN /\ UNCHANGED <<heap, cir, undo_stack, redo_stack>>
            /\ Observe("undo", "false")
       ELSE LET cur == Last(undo_stack) IN
            /\ Commit(apply_json_heap(cur, heap), apply_json_comps(cur, heap),
                      Front(undo_stack), Append(redo_stack, cur))
            /\ Observe("undo", "true")

\* undo: cur = pop(); redo.append(cur); prev = undo_stack[-1] (IndexError on an
\* empty list, after the pop and the append); cir.apply_json(prev)
undo ==
    /\ UNCHANGED <<nextCid, max_len>>
    /\ IF ~can_undo
       THEN /\ UNCHANGED <<heap, cir, undo_stack, redo_stack>>
            /\ Observe("undo", "false")
       ELSE LET cur == Last(undo_stack)
                rest == Front(undo_stack)
            IN IF rest = <<>>
               THEN /\ Commit(heap, cir, rest, Append(redo_stack, cur))
                    /\ Observe("undo", "raise")
               ELSE /\ Commit(apply_json_heap(Last(rest), heap),
                              apply_json_comps(Last(rest), heap),
                              rest, Append(redo_stack, cur))
                    /\ Observe("undo", "true")

\* redo that forgets undo_stack.append(nxt)
redo_no_push ==
    /\ UNCHANGED <<nextCid, max_len>>
    /\ IF ~can_redo
       THEN /\ UNCHANGED <<heap, cir, undo_stack, redo_stack>>
            /\ Observe("redo", "false")
       ELSE LET nxt == Last(redo_stack) IN
            /\ Commit(apply_json_heap(nxt, heap), apply_json_comps(nxt, heap),
                      undo_stack, Front(redo_stack))
            /\ Observe("redo", "true")

redo ==
    /\ UNCHANGED <<nextCid, max_len>>
    /\ IF ~can_redo
       THEN /\ UNCHANGED <<heap, cir, undo_stack, redo_stack>>
            /\ Observe("redo", "false")
       ELSE LET nxt == Last(redo_stack) IN
            /\ Commit(apply_json_heap(nxt, heap), apply_json_comps(nxt, heap),
                      Append(undo_stack, nxt), Front(redo_stack))
            /\ Observe("redo", "true")

\* TUIApp.run, the space key on a switch_spst: toggle state in place, solve,
\* record (solve_circuit changes no property of a circuit without rheostats)
TuiToggle(p) ==
    LET i == find_near(cir, p)
        h == [heap EXCEPT ![cir[i].props] =
                    Put(@, "state", IF Get(@, "state", 1) = 1 THEN 0 ELSE 1)]
    IN /\ i # 0
       /\ cir[i].ctype = "switch_spst"
       /\ Commit(h, cir, RecordUndo(h), RecordRedo(h))
       /\ UNCHANGED <<nextCid, max_len>>
       /\ Observe("toggle", "true")

\* ------------------------------------------------------- history behaviours
InitHist ==
    /\ heap = <<>>
    /\ cir = <<>>
    /\ nextCid = 1
    /\ max_len \in 1..MaxMaxLen
    /\ undo_stack = <<>>
    /\ redo_stack = <<>>
    /\ lastRet = "true"
    /\ obs \in {"t3", "t8"}
    /\ t3 = T3Idle
    /\ t8 = T8Fresh
    /\ gi = <<>>
    /\ gs = <<>>
    /\ sv = <<>>
    /\ ld = <<>>

NextHist ==
    \/ \E pl \in Placements : add(pl)
    \/ \E p \in Cursors : delete_at(p)
    \/ \E i \in 1..MaxCids, v \in {0, 1} : SetProp(i, v)
    \/ \E p \in Cursors : TuiToggle(p)
    \/ record
    \/ clear
    \/ undo
    \/ redo

SpecHist == InitHist /\ [][NextHist]_vars

\* ================================================================ numbers
\* Floats are modelled as integers: a float stands for the nearest multiple of
\* the resolution 1, a quotient is rounded toward zero, a midpoint downward.
\* The tiny constants of the code (1e-6, 1e-9, 1e-12, 1e-15) lie below the
\* resolution: as floors they are the least positive number, as thresholds
\* on a magnitude they test for zero.
R_NEAR_SHORT == 1

R_FLOOR == 1

R_DEFAULT == 100

V_DEFAULT == 5

IWARN_DEFAULT == 5

BRACKET_STEPS == 12

MaxFloat == 1000000000      \* the largest number; larger ones are represented by it

MaxIterMax == 6             \* largest max_iter explored

Span == 16                  \* largest search bound explored

Max2(a, b) == IF a >= b THEN a ELSE b

Min2(a, b) == IF a <= b THEN a ELSE b

TruncDiv(a, b) ==
    IF (a < 0) # (b < 0) THEN -(Abs(a) \div Abs(b)) ELSE Abs(a) \div Abs(b)

Mid(a, b) == (a + b) \div 2

Times10(x) == IF x > MaxFloat \div 10 THEN MaxFloat ELSE x * 10

\* ============================================================ the solver
\* the resistance of a resistor written back into its props as well
effective_resistance_stores(c, h) ==
    LET p == h[c.props] IN
    CASE c.ctype = "wire" -> [open |-> FALSE, R |-> R_NEAR_SHORT, heap |-> h]
      [] c.ctype = "resistor" ->
            [open |-> FALSE, R |-> Max2(Get(p, "R", R_DEFAULT), R_FLOOR),
             heap |-> [h EXCEPT ![c.props] = Put(@, "R", Max2(Get(p, "R", R_DEFAULT), R_FLOOR))]]
      [] c.ctype = "rheostat" ->
            LET R0 == Get(p, "R", R_DEFAULT)
                Rmin0 == Get(p, "Rmin", 0)
                Rmax0 == Get(p, "Rmax", Max2(R0, R_DEFAULT))
                Rmin == IF Rmax0 < Rmin0 THEN Rmax0 ELSE Rmin0
                Rmax == IF Rmax0 < Rmin0 THEN Rmin0 ELSE Rmax0
                R == Max2(Min2(R0, Rmax), Rmin)
            IN [open |-> FALSE, R |-> Max2(R, R_FLOOR),
                heap |-> [h EXCEPT ![c.props] = Put(@, "R", R)]]
      [] c.ctype = "switch_spst" ->
            IF Get(p, "state", 1) = 1
            THEN [open |-> FALSE, R |-> R_NEAR_SHORT, heap |-> h]
            ELSE [open |-> TRUE, R |-> 0, heap |-> h]
      [] OTHER -> [open |-> TRUE, R |-> 0, heap |-> h]

\* the rheostat's R clamped by Rmin and Rmax as given, never exchanged
effective_resistance_noswap(c, h) ==
    LET p == h[c.props] IN
    CASE c.ctype = "wire" -> [open |-> FALSE, R |-> R_NEAR_SHORT, heap |-> h]
      [] c.ctype = "resistor" ->
            [open |-> FALSE, R |-> Max2(Get(p, "R", R_DEFAULT), R_FLOOR), heap |-> h]
      [] c.ctype = "rheostat" ->
            LET R0 == Get(p, "R", R_DEFAULT)
                Rmin == Get(p, "Rmin", 0)
                Rmax == Get(p, "Rmax", Max2(R0, R_DEFAULT))
                R == Max2(Min2(R0, Rmax), Rmin)
            IN [open |-> FALSE, R |-> Max2(R, R_FLOOR),
                heap |-> [h EXCEPT ![c.props] = Put(@, "R", R)]]
      [] c.ctype = "switch_spst" ->
            IF Get(p, "state", 1) = 1
            THEN [open |-> FALSE, R |-> R_NEAR_SHORT, heap |-> h]
            ELSE [open |-> TRUE, R |-> 0, heap |-> h]
      [] OTHER -> [open |-> TRUE, R |-> 0, heap |-> h]

\* the rheostat's R used as it was read, the clamped value only written back
effective_resistance_unclamped(c, h) ==
    LET p == h[c.props] IN
    CASE c.ctype = "wire" -> [open |-> FALSE, R |-> R_NEAR_SHORT, heap |-> h]
      [] c.ctype = "resistor" ->
            [open |-> FALSE, R |-> Max2(Get(p, "R", R_DEFAULT), R_FLOOR), heap |-> h]
      [] c.ctype = "rheostat" ->
            LET R0 == Get(p, "R", R_DEFAULT)
                Rmin0 == Get(p, "Rmin", 0)
                Rmax0 == Get(p, "Rmax", Max2(R0, R_DEFAULT))
                Rmin == IF Rmax0 < Rmin0 THEN Rmax0 ELSE Rmin0
                Rmax == IF Rmax0 < Rmin0 THEN Rmin0 ELSE Rmax0
                R == Max2(Min2(R0, Rmax), Rmin)
            IN [open |-> FALSE, R |-> Max2(R0, R_FLOOR),
                heap |-> [h EXCEPT ![c.props] = Put(@, "R", R)]]
      [] c.ctype = "switch_spst" ->
            IF Get(p, "state", 1) = 1
            THEN [open |-> FALSE, R |-> R_NEAR_SHORT, heap |-> h]
            ELSE [open |-> TRUE, R |-> 0, heap |-> h]
      [] OTHER -> [open |-> TRUE, R |-> 0, heap |-> h]

\* effective_resistance(comp) on heap h: [open, R, heap]; a rheostat's clamped
\* R is written back into its props
effective_resistance(c, h) ==
    LET p == h[c.props] IN
    CASE c.ctype = "wire" -> [open |-> FALSE, R |-> R_NEAR_SHORT, heap |-> h]
      [] c.ctype = "resistor" ->
            [open |-> FALSE, R |-> Max2(Get(p, "R", R_DEFAULT), R_FLOOR), heap |-> h]
      [] c.ctype = "rheostat" ->
            LET R0 == Get(p, "R", R_DEFAULT)
                Rmin0 == Get(p, "Rmin", 0)
                Rmax0 == Get(p, "Rmax", Max2(R0, R_DEFAULT))
                Rmin == IF Rmax0 < Rmin0 THEN Rmax0 ELSE Rmin0
                Rmax == IF Rmax0 < Rmin0 THEN Rmin0 ELSE Rmax0
                R == Max2(Min2(R0, Rmax), Rmin)
            IN [open |-> FALSE, R |-> Max2(R, R_FLOOR),
                heap |-> [h EXCEPT ![c.props] = Put(@, "R", R)]]
      [] c.ctype = "switch_spst" ->
            IF Get(p, "state", 1) = 1
            THEN [open |-> FALSE, R |-> R_NEAR_SHORT, heap |-> h]
            ELSE [open |-> TRUE, R |-> 0, heap |-> h]
      [] OTHER -> [open |-> TRUE, R |-> 0, heap |-> h]

\* solve_circuit for a socket c[1] with one two-terminal component c[2] across
\* it (both from node a to node b).  Ground is the socket's b; the MNA system
\* is [[g, 1], [1, 0]] [v; i] = [0; V], which partial pivoting always solves:
\* v = V, i = -g V.  The component carries V / R, or 0 when open.
solve_circuit(c, h) ==
    LET er == effective_resistance(c[2], h)
        V == Get(h[c[1].props], "V", V_DEFAULT)
        Ix == IF er.open THEN 0 ELSE TruncDiv(V, er.R)
        Is == -Ix
        over == Abs(Is) > Get(h[c[1].props], "Iwarn", IWARN_DEFAULT)
    IN [ok |-> TRUE, heap |-> er.heap, v |-> V,
        comp_i |-> [k \in {c[1].cid, c[2].cid} |-> IF k = c[1].cid THEN Is ELSE Ix],
        source_overcurrent |-> over]

CompIndex(c, cid) ==
    IF \E i \in 1..Len(c) : c[i].cid = cid
    THEN CHOOSE i \in 1..Len(c) : c[i].cid = cid ELSE 0

\* _goal_measure for kind "comp", fields "Iab" and "R", without branch:
\* [none, v, heap]; component_metrics calls effective_resistance once more
goal_measure(res, c, h, spec) ==
    LET i == CompIndex(c, spec.cid) IN
    IF i = 0 THEN [none |-> TRUE, v |-> 0, heap |-> h]
    ELSE LET er == effective_resistance(c[i], h)
             raw == IF spec.field = "Iab" THEN res.comp_i[spec.cid] ELSE er.R
         IN IF spec.field = "R" /\ er.open
            THEN [none |-> TRUE, v |-> 0, heap |-> er.heap]
            ELSE [none |-> FALSE, v |-> IF spec.abs THEN Abs(raw) ELSE raw,
                  heap |-> er.heap]

\* ============================================================== goal seek
VarComp == cir[CompIndex(cir, gi.var_cid)]

VarProps(h) == h[VarComp.props]

SetVar(h, x) == [h EXCEPT ![VarComp.props] = Put(@, gi.var_prop, x)]

Cached(cache, x) == \E r \in cache : r.x = x

\* lines 714-724: the outcome of an evaluation that solved the circuit
Evaluated(x, cache, res, gm) ==
    LET none == ~res.ok \/ (gi.reject /\ res.source_overcurrent) \/ gm.none
        e == IF none THEN 0 ELSE gm.v - gi.target
        m == IF none THEN 0 ELSE gm.v
    IN [none |-> none, e |-> e, m |-> m,
        cache |-> cache \cup {[x |-> x, none |-> none, e |-> e, m |-> m]},
        heap |-> IF ~res.ok \/ (gi.reject /\ res.source_overcurrent)
                 THEN res.heap ELSE gm.heap,
        solved |-> {[x |-> x, none |-> none, m |-> m]}]

\* eval_err(x) with the cache and heap it finds; the set of its one outcome
\* [none, e, m, cache, heap, solved].  A cached x is answered without touching
\* the component.
eval_err(x, cache, h) ==
    IF Cached(cache, x)
    THEN { [none |-> r.none, e |-> r.e, m |-> r.m, cache |-> cache, heap |-> h,
            solved |-> {}] : r \in {c \in cache : c.x = x} }
    ELSE UNION { { Evaluated(x, cache, res, gm) :
                     gm \in {goal_measure(res, cir, res.heap, gi.measure)} } :
                 res \in {solve_circuit(cir, SetVar(h, x))} }

NoEval(cache, h) ==
    { [none |-> TRUE, e |-> 0, m |-> 0, cache |-> cache, heap |-> h, solved |-> {}] }

Tol(achieved) ==
    Max2(gi.tol_abs,
         (gi.tol_rel[1] * Max2(1, Max2(Abs(gi.target), Abs(achieved)))) \div gi.tol_rel[2])

is_done_loose(err, achieved) == Abs(err) <= Tol(achieved) + 1

is_done(err, achieved) == Abs(err) <= Tol(achieved)

Brackets(el, eh) == (el = 0) \/ (eh = 0) \/ (el < 0 /\ 0 < eh) \/ (eh < 0 /\ 0 < el)

Out0 ==
    [ok |-> FALSE, value |-> 0, achieved |-> 0, target |-> 0, error |-> 0,
     iterations |-> 0, message |-> "", history |-> <<>>]

GS0 ==
    [pc |-> "call", lo |-> 0, hi |-> 0, prev |-> 0, pre |-> {}, cache |-> {},
     e_lo |-> 0, m_lo |-> 0, e_hi |-> 0, m_hi |-> 0, bracketed |-> FALSE,
     lo0 |-> 0, hi0 |-> 0, e_lo0 |-> 0, e_hi0 |-> 0, m_lo0 |-> 0, m_hi0 |-> 0,
     lo2 |-> 0, hi2 |-> 0, k |-> 0, it |-> 0, use_bisect |-> FALSE,
     x0 |-> 0, x1 |-> 0, y0 |-> 0, y1 |-> 0, m0 |-> 0, m1 |-> 0,
     a |-> 0, b |-> 0, fa |-> 0, fb |-> 0,
     best_x |-> 0, best_m |-> 0, best_err |-> 0,
     out |-> Out0,
     nb |-> 0, nk |-> 0, ni |-> 0, log |-> {}, lastx |-> 0,
     heap0 |-> <<>>, again |-> FALSE, first |-> [out |-> Out0, heap |-> <<>>]]

HistFrame ==
    UNCHANGED <<cir, nextCid, max_len, undo_stack, redo_stack, lastRet, obs, t3, t8, gi, sv, ld>>

\* the bounds taken in the order given
GS_Start_noswap ==
    /\ gs.pc = "call"
    /\ HistFrame
    /\ UNCHANGED heap
    /\ IF CompIndex(cir, gi.var_cid) = 0
       THEN gs' = [gs EXCEPT !.heap0 = heap, !.pc = "done",
                             !.out = [Out0 EXCEPT !.message = "unknown var_cid"]]
       ELSE IF gi.lo = gi.hi
       THEN gs' = [gs EXCEPT !.heap0 = heap, !.pc = "done", !.pre = VarProps(heap),
                             !.out = [Out0 EXCEPT !.message = "lo == hi"]]
       ELSE gs' = [gs EXCEPT !.heap0 = heap, !.pc = "bounds",
                             !.lo = gi.lo, !.hi = gi.hi,
                             !.prev = Get(VarProps(heap), gi.var_prop, 0),
                             !.pre = VarProps(heap),
                             !.out = [Out0 EXCEPT !.target = gi.target]]

\* lines 683-696: the checks before the first evaluation
GS_Start ==
    /\ gs.pc = "call"
    /\ HistFrame
    /\ UNCHANGED heap
    /\ IF CompIndex(cir, gi.var_cid) = 0
       THEN gs' = [gs EXCEPT !.heap0 = heap, !.pc = "done",
                             !.out = [Out0 EXCEPT !.message = "unknown var_cid"]]
       ELSE IF gi.lo = gi.hi
       THEN gs' = [gs EXCEPT !.heap0 = heap, !.pc = "done", !.pre = VarProps(heap),
                             !.out = [Out0 EXCEPT !.message = "lo == hi"]]
       ELSE gs' = [gs EXCEPT !.heap0 = heap, !.pc = "bounds",
                             !.lo = Min2(gi.lo, gi.hi), !.hi = Max2(gi.lo, gi.hi),
                             !.prev = Get(VarProps(heap), gi.var_prop, 0),
                             !.pre = VarProps(heap),
                             !.out = [Out0 EXCEPT !.target = gi.target]]

\* the evaluations r (in order, the last one last) entered in the ghost log
Noted(g, solved, lastx) ==
    [g EXCEPT !.log = @ \cup solved,
              !.lastx = IF solved = {} THEN @ ELSE lastx]

\* lines 789-800: the locals of the solve loop
LoopInit(g) ==
    [g EXCEPT !.pc = "loop", !.it = 0,
              !.use_bisect = (gi.method \in {"auto", "bisect"}) /\ g.bracketed,
              !.x0 = g.lo, !.x1 = g.hi, !.y0 = g.e_lo, !.y1 = g.e_hi,
              !.m0 = g.m_lo, !.m1 = g.m_hi,
              !.a = g.lo, !.b = g.hi, !.fa = g.e_lo, !.fb = g.e_hi,
              !.best_x = g.lo, !.best_m = g.m_lo, !.best_err = g.e_lo]

\* lines 750-756: classify the bounds, enter the bracketing phase or the loop
Classified(g) ==
    IF gi.method = "auto" /\ ~Brackets(g.e_lo, g.e_hi)
    THEN [g EXCEPT !.pc = "bracket", !.k = 0, !.bracketed = FALSE,
                   !.lo0 = g.lo, !.hi0 = g.hi, !.e_lo0 = g.e_lo, !.e_hi0 = g.e_hi,
                   !.m_lo0 = g.m_lo, !.m_hi0 = g.m_hi, !.lo2 = g.lo, !.hi2 = g.hi]
    ELSE LoopInit([g EXCEPT !.bracketed = Brackets(g.e_lo, g.e_hi)])

\* lines 727-756: evaluate the bounds, substitute the midpoint, classify
GS_Bounds ==
    /\ gs.pc = "bounds"
    /\ HistFrame
    /\ \E mid0 \in {Mid(gs.lo, gs.hi)} :
       \E r1 \in eval_err(gs.lo, gs.cache, heap) :
       \E r2 \in eval_err(gs.hi, r1.cache, r1.heap) :
       \E needMid \in {gi.method = "auto" /\ (r1.none \/ r2.none)} :
       \E r3 \in IF needMid THEN eval_err(mid0, r2.cache, r2.heap)
                 ELSE NoEval(r2.cache, r2.heap) :
       \E subLo \in {needMid /\ ~r3.none /\ r1.none} :
       \E subHi \in {needMid /\ ~r3.none /\ ~r1.none /\ r2.none} :
       \E solved \in {r1.solved \cup r2.solved \cup r3.solved} :
       \E g1 \in {[Noted(gs, solved,
                         IF r3.solved # {} THEN mid0
                         ELSE IF r2.solved # {} THEN gs.hi ELSE gs.lo)
                      EXCEPT !.cache = r3.cache, !.nb = Cardinality(solved)]} :
       IF (r1.none /\ ~subLo) \/ (r2.none /\ ~subHi)
       THEN /\ heap' = SetVar(r3.heap, gs.prev)
            /\ gs' = [g1 EXCEPT !.pc = "done",
                         !.out = [Out0 EXCEPT !.message = "evaluation failed at bounds"]]
       ELSE \E lo \in {IF subLo THEN mid0 ELSE gs.lo} :
            \E hi \in {IF subHi THEN mid0 ELSE gs.hi} :
            \E rl \in {IF subLo THEN r3 ELSE r1} :
            \E rh \in {IF subHi THEN r3 ELSE r2} :
            /\ heap' = r3.heap
            /\ gs' = Classified([g1 EXCEPT !.lo = lo, !.hi = hi,
                                    !.e_lo = rl.e, !.m_lo = rl.m,
                                    !.e_hi = rh.e, !.m_hi = rh.m,
                                    !.out.history = <<<<lo, rl.m>>, <<hi, rh.m>>>>])

\* lines 766-775: the next pair of bounds of the bracketing phase
Width(lo2, hi2) ==
    IF Abs(hi2 - lo2) = 0 THEN Max2(Abs(Mid(lo2, hi2)), 1) ELSE hi2 - lo2

ExpandLo(lo2, hi2) ==
    IF lo2 > 0 /\ hi2 > 0 /\ gi.var_prop \in {"R", "r"}
    THEN Max2(TruncDiv(lo2, 10), 1)
    ELSE Mid(lo2, hi2) - 2 * Width(lo2, hi2)

ExpandHi(lo2, hi2) ==
    IF lo2 > 0 /\ hi2 > 0 /\ gi.var_prop \in {"R", "r"}
    THEN Times10(hi2)
    ELSE Mid(lo2, hi2) + 2 * Width(lo2, hi2)

\* lines 758-787: one pass of `for _ in range(12)`, or its exhaustion
GS_Bracket ==
    /\ gs.pc = "bracket"
    /\ HistFrame
    /\ IF gs.k >= BRACKET_STEPS
       THEN /\ heap' = heap
            /\ gs' = LoopInit([gs EXCEPT !.lo = gs.lo0, !.hi = gs.hi0])
       ELSE IF Brackets(gs.e_lo0, gs.e_hi0)
       THEN /\ heap' = heap
            /\ gs' = LoopInit([gs EXCEPT !.lo = gs.lo2, !.hi = gs.hi2,
                                 !.e_lo = gs.e_lo0, !.e_hi = gs.e_hi0,
                                 !.m_lo = gs.m_lo0, !.m_hi = gs.m_hi0,
                                 !.bracketed = TRUE])
       ELSE \E lo2 \in {ExpandLo(gs.lo2, gs.hi2)} :
            \E hi2 \in {ExpandHi(gs.lo2, gs.hi2)} :
            \E r1 \in eval_err(lo2, gs.cache, heap) :
            \E r2 \in eval_err(hi2, r1.cache, r1.heap) :
            \E solved \in {r1.solved \cup r2.solved} :
            /\ heap' = r2.heap
            /\ gs' = [Noted(gs, solved, IF r2.solved # {} THEN hi2 ELSE lo2)
                        EXCEPT !.k = @ + 1, !.lo2 = lo2, !.hi2 = hi2,
                            !.cache = r2.cache,
                            !.nk = @ + Cardinality(solved),
                            !.e_lo0 = IF r1.none THEN @ ELSE r1.e,
                            !.m_lo0 = IF r1.none THEN @ ELSE r1.m,
                            !.e_hi0 = IF r2.none THEN @ ELSE r2.e,
                            !.m_hi0 = IF r2.none THEN @ ELSE r2.m]

\* lines 866-875: restore the property and report the best point
Fail(g, h, reason) ==
    /\ heap' = SetVar(h, g.prev)
    /\ gs' = [g EXCEPT !.pc = "done",
                 !.out.ok = FALSE, !.out.value = g.best_x, !.out.achieved = g.best_m,
                 !.out.error = g.best_err,
                 !.out.message = IF gi.method = "auto" /\ ~g.bracketed
                                 THEN "failed: not bracketed" ELSE reason]

\* lines 822-832 and 851-859: report the point just evaluated
Succeed(g, h, x, m, e) ==
    /\ heap' = h
    /\ gs' = [g EXCEPT !.pc = "done",
                 !.out.ok = TRUE, !.out.value = x, !.out.achieved = m,
                 !.out.error = e, !.out.message = "ok"]

BestWith(g, x, m, e) ==
    IF Abs(e) < Abs(g.best_err)
    THEN [g EXCEPT !.best_x = x, !.best_m = m, !.best_err = e] ELSE g

\* lines 816-820 and 846-849: the evaluated point enters the history and the best
Visited(g, r, x) ==
    BestWith([Noted(g, r.solved, x) EXCEPT !.cache = r.cache,
                 !.ni = @ + Cardinality(r.solved),
                 !.out.history = Append(@, <<x, r.m>>)],
             x, r.m, r.e)

\* lines 833-837: the half of the bracket that is kept
Halve(g, mid, e) ==
    IF g.fa = 0 THEN [g EXCEPT !.a = mid, !.fa = e, !.it = @ + 1]
    ELSE IF g.fb = 0 THEN [g EXCEPT !.b = mid, !.fb = e, !.it = @ + 1]
    ELSE IF (g.fa < 0 /\ e > 0) \/ (g.fa > 0 /\ e < 0)
    THEN [g EXCEPT !.b = mid, !.fb = e, !.it = @ + 1]
    ELSE [g EXCEPT !.a = mid, !.fa = e, !.it = @ + 1]

\* lines 809-837: one bisection step
BisectStep(g0) ==
    \E mid \in {Mid(g0.a, g0.b)} :
    \E r \in eval_err(mid, g0.cache, heap) :
    IF r.none
    THEN Fail([Noted(g0, r.solved, mid) EXCEPT !.cache = r.cache,
                  !.ni = @ + Cardinality(r.solved)],
              r.heap, "evaluation failed during bisection")
    ELSE \E g2 \in {Visited(g0, r, mid)} :
         IF is_done(r.e, r.m) THEN Succeed(g2, r.heap, mid, r.m, r.e)
         ELSE /\ heap' = r.heap
              /\ gs' = Halve(g2, mid, r.e)

\* lines 843-845: the secant point, clamped to the bounds, nudged off x1
SecantPoint(g) ==
    LET xa == g.x1 - TruncDiv(g.y1 * (g.x1 - g.x0), g.y1 - g.y0)
        xc == Min2(Max2(xa, g.lo), g.hi)
    IN IF Abs(xc - g.x1) <= 0 THEN Mid(g.x0, g.x1) ELSE xc

\* lines 839-864: one secant step
SecantStep(g0) ==
    IF g0.y1 - g0.y0 = 0 THEN Fail(g0, heap, "secant slope is zero")
    ELSE \E x2 \in {SecantPoint(g0)} :
         \E r \in eval_err(x2, g0.cache, heap) :
         IF r.none
         THEN Fail([Noted(g0, r.solved, x2) EXCEPT !.cache = r.cache,
                       !.ni = @ + Cardinality(r.solved)],
                   r.heap, "evaluation failed during secant")
         ELSE \E g2 \in {Visited(g0, r, x2)} :
              IF is_done(r.e, r.m) THEN Succeed(g2, r.heap, x2, r.m, r.e)
              ELSE /\ heap' = r.heap
                   /\ gs' = [g2 EXCEPT !.x0 = g2.x1, !.y0 = g2.y1, !.m0 = g2.m1,
                                !.x1 = x2, !.y1 = r.e, !.m1 = r.m, !.it = @ + 1]

GS_Iterate_unbounded ==
    /\ gs.pc = "loop"
    /\ gs.it < gi.max_iter + 1
    /\ HistFrame
    /\ \E g \in {[gs EXCEPT !.out.iterations = gs.it + 1]} :
       \E g0 \in {BestWith(BestWith(g, g.x0, g.m0, g.y0), g.x1, g.m1, g.y1)} :
       IF g0.use_bisect THEN BisectStep(g0) ELSE SecantStep(g0)

\* lines 802-864: one pass of `for it in range(int(max_iter))`
GS_Iterate ==
    /\ gs.pc = "loop"
    /\ gs.it < gi.max_iter
    /\ HistFrame
    /\ \E g \in {[gs EXCEPT !.out.iterations = gs.it + 1]} :
       \E g0 \in {BestWith(BestWith(g, g.x0, g.m0, g.y0), g.x1, g.m1, g.y1)} :
       IF g0.use_bisect THEN BisectStep(g0) ELSE SecantStep(g0)

\* the loop ran out of iterations
GS_Exhausted ==
    /\ gs.pc = "loop"
    /\ gs.it >= gi.max_iter
    /\ HistFrame
    /\ Fail(gs, heap, "failed")

\* ------------------------------------------------ goal-seek behaviours
\* the circuit under goal seek: a socket (cid 1) with one resistor or rheostat
\* (cid 2) across it
BenchHeap(xtype) ==
    << {<<"V", 12>>, <<"Iwarn", 5>>}, {},
       IF xtype = "rheostat" THEN {<<"R", 3>>, <<"Rmin", 2>>, <<"Rmax", 8>>}
                             ELSE {<<"R", 3>>}, {} >>

BenchCir(xtype) ==
    << Component(1, "socket", <<0, 0>>, <<0, 6>>, 1, 2),
       Component(2, xtype, <<0, 0>>, <<0, 6>>, 3, 4) >>

Measures ==
    { [cid |-> 2, field |-> "R", abs |-> FALSE],
      [cid |-> 1, field |-> "Iab", abs |-> TRUE],
      [cid |-> 9, field |-> "Iab", abs |-> FALSE] }

Variables == { <<2, "R">>, <<1, "V">>, <<9, "R">> }

Searches == { <<1, Span>>, <<Span, 4>>, <<2, 8>>, <<4, 4>> }

Targets == {0, 1, 3, 4, Span}

Tolerances == { <<0, <<0, 1>>>>, <<1, <<1, 4>>>> }

Plain(in) ==
    /\ in.xtype = "resistor"
    /\ ~in.unset
    /\ ~in.reject
    /\ in.method = "auto"
    /\ in.tol = <<0, <<0, 1>>>>
    /\ in.max_iter = MaxIterMax

InitGS ==
    \E var \in Variables, xtype \in {"resistor", "rheostat"}, unset \in BOOLEAN,
       measure \in Measures, reject \in BOOLEAN, search \in Searches,
       target \in Targets, tol \in Tolerances,
       method \in {"auto", "bisect", "secant"}, max_iter \in {0, 2, MaxIterMax} :
    \E in \in {[var |-> var, xtype |-> xtype, unset |-> unset, measure |-> measure,
                reject |-> reject, search |-> search, target |-> target, tol |-> tol,
                method |-> method, max_iter |-> max_iter]} :
    /\ (in.var[1] = 9 \/ in.measure.cid = 9 \/ in.search[1] = in.search[2]) => Plain(in)
    /\ cir = BenchCir(in.xtype)
    /\ heap = IF in.unset
              THEN [BenchHeap(in.xtype) EXCEPT
                        ![IF in.var[1] = 1 THEN 1 ELSE 3] = {p \in @ : p[1] # in.var[2]}]
              ELSE BenchHeap(in.xtype)
    /\ nextCid = 3
    /\ max_len = 1
    /\ undo_stack = <<>>
    /\ redo_stack = <<>>
    /\ lastRet = "true"
    /\ obs = "t3"
    /\ t3 = T3Idle
    /\ t8 = T8Fresh
    /\ gi = [var_cid |-> in.var[1], var_prop |-> in.var[2], target |-> in.target,
             measure |-> in.measure, lo |-> in.search[1], hi |-> in.search[2],
             tol_abs |-> in.tol[1], tol_rel |-> in.tol[2], max_iter |-> in.max_iter,
             method |-> in.method, reject |-> in.reject]
    /\ gs = GS0
    /\ sv = <<>>
    /\ ld = <<>>

NextGS == GS_Start \/ GS_Bounds \/ GS_Bracket \/ GS_Iterate \/ GS_Exhausted

SpecGS == InitGS /\ [][NextGS]_vars

\* the same call once more on the circuit as it was, the two bounds exchanged;
\* gs.first keeps the result and the circuit the first call left
GS_Again ==
    /\ gs.pc = "done"
    /\ ~gs.again
    /\ gi' = [gi EXCEPT !.lo = gi.hi, !.hi = gi.lo]
    /\ heap' = gs.heap0
    /\ gs' = [GS0 EXCEPT !.again = TRUE, !.first = [out |-> gs.out, heap |-> heap]]
    /\ UNCHANGED <<cir, nextCid, max_len, undo_stack, redo_stack, lastRet, obs, t3, t8, sv, ld>>

NextTwice == NextGS \/ GS_Again

SpecTwice == InitGS /\ [][NextTwice]_vars

\* ============================================================ the solver
\* solve_circuit in full.  Properties are integers; what the solver computes
\* from them (conductances, voltages, currents) is exact: a rational <<n, d>>
\* in lowest terms with d > 0.  As above, the constants below the resolution
\* of the properties stand for the least positive number (R_NEAR_SHORT, the
\* floor of a resistance) or test for zero (eps of solve_linear).
RECURSIVE Gcd(_, _)
Gcd(a, b) == IF b = 0 THEN a ELSE Gcd(b, a % b)

Q(n, d) ==
    LET g == Gcd(Abs(n), Abs(d))
        s == IF d < 0 THEN -1 ELSE 1
    IN <<(s * n) \div g, (s * d) \div g>>

QInt(n) == <<n, 1>>

QAdd(p, q) == Q(p[1] * q[2] + q[1] * p[2], p[2] * q[2])

QSub(p, q) == Q(p[1] * q[2] - q[1] * p[2], p[2] * q[2])

QMul(p, q) == Q(p[1] * q[1], p[2] * q[2])

QDiv(p, q) == Q(p[1] * q[2], p[2] * q[1])

QAbs(p) == <<Abs(p[1]), p[2]>>

QLess(p, q) == p[1] * q[2] < q[1] * p[2]

QZero == <<0, 1>>

\* solve_linear: Gauss-Jordan elimination with partial pivoting on the
\* augmented rows M[r] = <<A[r][1], ..., A[r][n], b[r]>>; "none" when a pivot
\* column has no entry of magnitude eps or more
PivotRow(M, col, n) ==
    CHOOSE p \in col..n :
        /\ \A r \in col..n : ~QLess(QAbs(M[p][col]), QAbs(M[r][col]))
        /\ \A r \in col..(p - 1) : QLess(QAbs(M[r][col]), QAbs(M[p][col]))

Swapped(M, i, j) == [M EXCEPT ![i] = M[j], ![j] = M[i]]

Scaled(row, piv) == [c \in DOMAIN row |-> QDiv(row[c], piv)]

Eliminated(M, col, n) ==
    [r \in 1..n |->
        IF r = col \/ M[r][col] = QZero THEN M[r]
        ELSE [c \in DOMAIN M[r] |-> QSub(M[r][c], QMul(M[r][col], M[col][c]))]]

\* one column: the pivot row p is swapped into place and scaled, the column is
\* cleared from every other row
Pivoted(M, col, p, n) ==
    Eliminated([Swapped(M, col, p) EXCEPT ![col] = Scaled(M[p], M[p][col])], col, n)

RECURSIVE Gauss(_, _, _)
Gauss(M, col, n) ==
    IF col > n THEN [none |-> FALSE, x |-> [r \in 1..n |-> M[r][n + 1]]]
    ELSE CHOOSE res \in UNION {{ IF M[p][col] = QZero THEN [none |-> TRUE, x |-> <<>>]
                                 ELSE Gauss(M2, col + 1, n)
                                 : M2 \in {IF M[p][col] = QZero THEN M
                                           ELSE Pivoted(M, col, p, n)} }
                               : p \in {PivotRow(M, col, n)}} : TRUE

solve_linear(A, b) ==
    CHOOSE res \in {Gauss(M, 1, Len(b)) : M \in {[r \in 1..Len(b) |-> Append(A[r], b[r])]}} : TRUE

\* the order of points: tuples compare lexicographically
PointLess(p, q) == p[1] < q[1] \/ (p[1] = q[1] /\ p[2] < q[2])

\* min over points
MinPoint(S) == CHOOSE p \in S : \A q \in S : ~PointLess(q, p)

\* the a of the first socket taken for ground
Ground_first_a(comps) ==
    LET socks == {i \in 1..Len(comps) : comps[i].ctype = "socket"}
        pts == {comps[i].a : i \in 1..Len(comps)} \cup {comps[i].b : i \in 1..Len(comps)}
    IN IF socks # {} THEN comps[CHOOSE i \in socks : \A j \in socks : i <= j].a
       ELSE IF pts # {} THEN MinPoint(pts)
       ELSE <<0, 0>>

\* lines 336-345: ground is the b of the first socket, else the least endpoint
Ground(comps) ==
    LET socks == {i \in 1..Len(comps) : comps[i].ctype = "socket"}
        pts == {comps[i].a : i \in 1..Len(comps)} \cup {comps[i].b : i \in 1..Len(comps)}
    IN IF socks # {} THEN comps[CHOOSE i \in socks : \A j \in socks : i <= j].b
       ELSE IF pts # {} THEN MinPoint(pts)
       ELSE <<0, 0>>

\* lines 347-423: the solver components of one component.  A surrogate is a
\* switch_spst made by the expansion: it has no dictionary of its own, only a
\* state.
Surrogate(c, label, a, b, state) ==
    [cid |-> c.cid, label |-> label, ctype |-> "switch_spst", a |-> a, b |-> b,
     sur |-> TRUE, state |-> state, comp |-> c]

ExpandOne(c, h) ==
    LET p == h[c.props] IN
    CASE c.ctype = "switch_spdt" ->
            IF Get(p, "throw", 0) = 0
            THEN << Surrogate(c, "t0", c.a, c.b, 1) >>
            ELSE << Surrogate(c, "t1", c.a,
                              <<Get(p, "c_x", c.b[1]), Get(p, "c_y", c.b[2] + 2)>>, 1) >>
      [] c.ctype = "switch_dpst" ->
            << Surrogate(c, "p1", c.a, c.b, Get(p, "state", 1)),
               Surrogate(c, "p2",
                         <<Get(p, "c_x", c.a[1]), Get(p, "c_y", c.a[2] + 2)>>,
                         <<Get(p, "d_x", c.b[1]), Get(p, "d_y", c.b[2] + 2)>>,
                         Get(p, "state", 1)) >>
      [] c.ctype = "switch_sp3t" ->
            LET throw == Max2(0, Min2(2, Get(p, "throw", 0))) IN
            << Surrogate(c, <<"t0", "t1", "t2">>[throw + 1], c.a,
                         << c.b,
                            <<Get(p, "c_x", c.b[1]), Get(p, "c_y", c.b[2] + 2)>>,
                            <<Get(p, "d_x", c.b[1]), Get(p, "d_y", c.b[2] + 4)>> >>[throw + 1],
                         1) >>
      [] c.ctype = "switch_dpdt" ->
            LET throw == Max2(0, Min2(1, Get(p, "throw", 0)))
                t1_1 == <<Get(p, "c_x", c.b[1]), Get(p, "c_y", c.b[2] + 2)>>
                com2 == <<Get(p, "d_x", c.a[1]), Get(p, "d_y", c.a[2] + 4)>>
                t2_0 == <<Get(p, "e_x", com2[1] + 6), Get(p, "e_y", com2[2])>>
                t2_1 == <<Get(p, "f_x", t2_0[1]), Get(p, "f_y", t2_0[2] + 2)>>
            IN << Surrogate(c, "p1", c.a, IF throw = 0 THEN c.b ELSE t1_1, 1),
                  Surrogate(c, "p2", com2, IF throw = 0 THEN t2_0 ELSE t2_1, 1) >>
      [] c.ctype = "button_momentary" ->
            << Surrogate(c, "m", c.a, c.b, IF Get(p, "pressed", 0) = 1 THEN 1 ELSE 0) >>
      [] OTHER ->
            << [cid |-> c.cid, label |-> "main", ctype |-> c.ctype, a |-> c.a, b |-> c.b,
                sur |-> FALSE, state |-> 0, comp |-> c] >>

RECURSIVE Expand(_, _, _)
Expand(comps, i, h) ==
    IF i > Len(comps) THEN <<>>
    ELSE ExpandOne(comps[i], h) \o Expand(comps, i + 1, h)

\* effective_resistance of a solver component: [open, R]
Resistance(x, h) ==
    IF x.sur
    THEN IF x.state = 1 THEN [open |-> FALSE, R |-> R_NEAR_SHORT]
                        ELSE [open |-> TRUE, R |-> 0]
    ELSE [open |-> effective_resistance(x.comp, h).open,
          R |-> effective_resistance(x.comp, h).R]

\* the heap after effective_resistance has been called on every solver component
RECURSIVE Clamped(_, _, _)
Clamped(ex, i, h) ==
    IF i > Len(ex) THEN h
    ELSE IF ex[i].sur \/ ex[i].ctype = "socket" THEN Clamped(ex, i + 1, h)
    ELSE Clamped(ex, i + 1, effective_resistance(ex[i].comp, h).heap)

\* lines 425-439: the nodes in sorted order without ground, the sources
Nodes(ex) == {ex[i].a : i \in 1..Len(ex)} \cup {ex[i].b : i \in 1..Len(ex)}

\* v_idx: the row of a node, counted from 1; 0 for ground
NodeIndex(n, ex, ground) ==
    IF n = ground THEN 0
    ELSE 1 + Cardinality({q \in Nodes(ex) \ {ground} : PointLess(q, n)})

NumNodes(ex, ground) == Cardinality(Nodes(ex) \ {ground})

SourceRank(ex, i) == Cardinality({j \in 1..i : ex[j].ctype = "socket"})

NumSources(ex) == SourceRank(ex, Len(ex))

\* lines 453-483: what solver component x adds to A[i][j] and to b[i]
Stamp(x, k, i, j, ex, ground, h) ==
    LET ia == NodeIndex(x.a, ex, ground)
        ib == NodeIndex(x.b, ex, ground)
        row == NumNodes(ex, ground) + k
        B(cond) == IF cond THEN 1 ELSE 0
    IN IF x.ctype = "socket"
       THEN QInt(  B(ia # 0 /\ ia = i /\ row = j) + B(ia # 0 /\ row = i /\ ia = j)
                 - B(ib # 0 /\ ib = i /\ row = j) - B(ib # 0 /\ row = i /\ ib = j))
       ELSE IF Resistance(x, h).open THEN QZero
       ELSE Q(  B(ia # 0 /\ ia = i /\ i = j) + B(ib # 0 /\ ib = i /\ i = j)
              - B(ia # 0 /\ ib # 0 /\ ia = i /\ ib = j)
              - B(ia # 0 /\ ib # 0 /\ ib = i /\ ia = j),
              Resistance(x, h).R)

RECURSIVE StampSum(_, _, _, _, _, _)
StampSum(ex, n, i, j, ground, h) ==
    IF n = 0 THEN QZero
    ELSE QAdd(StampSum(ex, n - 1, i, j, ground, h),
              Stamp(ex[n], SourceRank(ex, n), i, j, ex, ground, h))

Matrix(ex, ground, h) ==
    LET N == NumNodes(ex, ground) + NumSources(ex) IN
    [i \in 1..N |-> [j \in 1..N |-> StampSum(ex, Len(ex), i, j, ground, h)]]

Rhs(ex, ground, h) ==
    LET nn == NumNodes(ex, ground) IN
    [i \in 1..(nn + NumSources(ex)) |->
        IF i <= nn THEN QZero
        ELSE LET s == CHOOSE n \in 1..Len(ex) :
                        ex[n].ctype = "socket" /\ SourceRank(ex, n) = i - nn
             IN QInt(Get(h[ex[s].comp.props], "V", V_DEFAULT))]

\* SolveResult, lines 271-279: the fields as the constructor leaves them
SolveResult(ok, h) ==
    [ok |-> ok, singular |-> FALSE, node_v |-> <<>>, comp_i |-> <<>>,
     comp_flags |-> <<>>, comp_branch_i |-> <<>>, warnings |-> <<>>, heap |-> h]

\* lines 493-495
NodeV(ex, ground, sol) ==
    [n \in Nodes(ex) \cup {ground} |->
        IF n = ground THEN QZero ELSE sol[NodeIndex(n, ex, ground)]]

\* the current taken from the voltage at a alone
SolverCompI_a(ex, n, ground, sol, h) ==
    IF ex[n].ctype = "socket" THEN sol[NumNodes(ex, ground) + SourceRank(ex, n)]
    ELSE IF Resistance(ex[n], h).open THEN QZero
    ELSE QDiv(NodeV(ex, ground, sol)[ex[n].a], QInt(Resistance(ex[n], h).R))

\* lines 497-510: the current of solver component n
SolverCompI(ex, n, ground, sol, h) ==
    IF ex[n].ctype = "socket" THEN sol[NumNodes(ex, ground) + SourceRank(ex, n)]
    ELSE IF Resistance(ex[n], h).open THEN QZero
    ELSE QDiv(QSub(NodeV(ex, ground, sol)[ex[n].a], NodeV(ex, ground, sol)[ex[n].b]),
              QInt(Resistance(ex[n], h).R))

\* lines 512-519
BranchesOf(cid, ex) == {n \in 1..Len(ex) : ex[n].cid = cid}

CompBranchI(comps, ex, ground, sol, h) ==
    [cid \in {comps[i].cid : i \in 1..Len(comps)} |->
        [lab \in {ex[n].label : n \in BranchesOf(cid, ex)} |->
            SolverCompI(ex, CHOOSE n \in BranchesOf(cid, ex) : ex[n].label = lab,
                        ground, sol, h)]]

OpenFlagged(comps, ex, h) ==
    {ex[n].cid : n \in {k \in 1..Len(ex) : ex[k].ctype # "socket" /\ Resistance(ex[k], h).open}}

\* the last label taken instead of the first
FirstLabel_last(labs) ==
    IF "main" \in labs THEN "main"
    ELSE IF "p2" \in labs THEN "p2"
    ELSE CHOOSE l \in labs : TRUE

\* lines 521-534: "main" if there is one, else the first label in sorted order
\* (the labels of one component are t0 | t1 | t2 | m | p1, p2)
FirstLabel(labs) ==
    IF "main" \in labs THEN "main"
    ELSE IF "p1" \in labs THEN "p1"
    ELSE CHOOSE l \in labs : TRUE

CompI(comps, ex, ground, sol, h) ==
    [cid \in {comps[i].cid : i \in 1..Len(comps)} |->
        CompBranchI(comps, ex, ground, sol, h)[cid]
            [FirstLabel(DOMAIN CompBranchI(comps, ex, ground, sol, h)[cid])]]

\* lines 536-540: the sockets whose current exceeds their own Iwarn
Iwarn(c, h) == Get(h[c.props], "Iwarn", IWARN_DEFAULT)

SourceOver(comps, ci, h) ==
    {i \in 1..Len(comps) : comps[i].ctype = "socket"
                           /\ QLess(QInt(Iwarn(comps[i], h)), QAbs(ci[comps[i].cid]))}

\* lines 542-547: max(Iwarn, max_iwarn or 0.0) over the sockets
RECURSIVE MaxIwarn(_, _, _)
MaxIwarn(comps, i, h) ==
    IF i = 0 THEN 0
    ELSE IF comps[i].ctype = "socket"
         THEN Max2(Iwarn(comps[i], h), MaxIwarn(comps, i - 1, h))
         ELSE MaxIwarn(comps, i - 1, h)

\* lines 548-556
CompFlags(comps, ex, ci, h) ==
    LET open == OpenFlagged(comps, ex, h)
        src == {comps[i].cid : i \in SourceOver(comps, ci, h)}
        over == IF src = {} THEN {}
                ELSE {comps[i].cid : i \in {k \in 1..Len(comps) :
                        /\ comps[k].ctype # "socket"
                        /\ comps[k].cid \notin open
                        /\ QLess(QInt(MaxIwarn(comps, Len(comps), h)), QAbs(ci[comps[k].cid]))}}
    IN [cid \in open \cup src \cup over |->
          IF cid \in src THEN "source_overcurrent"
          ELSE IF cid \in open THEN "open" ELSE "overcurrent"]

\* lines 536-540, 557-558: one warning per overloaded socket in order, then the
\* open-loop warning
RECURSIVE SourceWarnings(_, _, _, _)
SourceWarnings(comps, i, ci, h) ==
    IF i > Len(comps) THEN <<>>
    ELSE (IF i \in SourceOver(comps, ci, h) THEN << <<"short", comps[i].cid>> >> ELSE <<>>)
         \o SourceWarnings(comps, i + 1, ci, h)

Warnings(comps, ci, h) ==
    SourceWarnings(comps, 1, ci, h)
    \o (IF /\ \E i \in 1..Len(comps) : comps[i].ctype = "socket"
           /\ \A i \in 1..Len(comps) : comps[i].ctype = "socket" => ci[comps[i].cid] = QZero
        THEN << <<"open_loop", 0>> >> ELSE <<>>)

\* solve_circuit, lines 331-566, on the solver components ex of comps
Solved(comps, ex, ground, sol, h) ==
    CHOOSE res \in
        {[ok |-> TRUE, singular |-> FALSE,
          node_v |-> NodeV(ex, ground, sol),
          comp_i |-> ci,
          comp_flags |-> CompFlags(comps, ex, ci, h),
          comp_branch_i |-> CompBranchI(comps, ex, ground, sol, h),
          warnings |-> Warnings(comps, ci, h),
          heap |-> Clamped(ex, 1, h)] :
            ci \in {CompI(comps, ex, ground, sol, h)}} : TRUE

\* a singular system reported with the fields of the solve before it
SolveExpanded_stale(comps, ex, ground, h) ==
    IF NumNodes(ex, ground) + NumSources(ex) = 0 THEN SolveResult(TRUE, h)
    ELSE LET lin == solve_linear(Matrix(ex, ground, h), Rhs(ex, ground, h)) IN
         IF lin.none
         THEN [SolveResult(FALSE, Clamped(ex, 1, h)) EXCEPT
                  !.singular = TRUE, !.warnings = << <<"singular", 0>> >>,
                  !.node_v = [n \in {ground} |-> QZero]]
         ELSE Solved(comps, ex, ground, lin.x, h)

SolveExpanded(comps, ex, ground, h) ==
    IF NumNodes(ex, ground) + NumSources(ex) = 0 THEN SolveResult(TRUE, h)
    ELSE LET lin == solve_linear(Matrix(ex, ground, h), Rhs(ex, ground, h)) IN
         IF lin.none
         THEN [SolveResult(FALSE, Clamped(ex, 1, h)) EXCEPT
                  !.singular = TRUE, !.warnings = << <<"singular", 0>> >>]
         ELSE Solved(comps, ex, ground, lin.x, h)

SolveCircuit(comps, h) == SolveExpanded(comps, Expand(comps, 1, h), Ground(comps), h)

\* ------------------------------------------------------------------ solving
\* The front ends solve after every edit (tui.py, gui.py: solve_circuit(self.cir)).
\* sv keeps the result of the last call, the result of the call before it and
\* what was done to the circuit in between.
MaxParts == 2       \* components of a circuit besides its sockets
MaxSeries == 3      \* resistors of a series loop
MaxSolves == 2      \* calls of solve_circuit in one behaviour

SV0 == [n |-> 0, what |-> <<"new", 0>>, res |-> <<>>, prev |-> <<>>, wrote |-> FALSE]

SV_Record(what, h, r) ==
    /\ heap' = r.heap
    /\ sv' = [n |-> sv.n + 1, what |-> what, res |-> r, prev |-> sv.res,
              wrote |-> sv.wrote \/ r.heap # h]
    /\ UNCHANGED <<nextCid, max_len, undo_stack, redo_stack, lastRet, obs, t3, t8, gi, gs, ld>>

\* solve_circuit(cir) on the circuit as it is
SV_Solve ==
    /\ sv.n < MaxSolves
    /\ cir' = cir
    /\ \E r \in {SolveCircuit(cir, heap)} : SV_Record(<<"solve", 0>>, heap, r)

\* the key that opens component c, if it is a closed switch or a pressed button
OpenKey(c, h) ==
    IF c.ctype \in {"switch_spst", "switch_dpst"} /\ Get(h[c.props], "state", 1) = 1
    THEN "state"
    ELSE IF c.ctype = "button_momentary" /\ Get(h[c.props], "pressed", 0) = 1
    THEN "pressed"
    ELSE "none"

\* component i is opened (a switch toggled, a button released), then solved
SV_Open(i) ==
    /\ sv.n \in 1..(MaxSolves - 1)
    /\ i \in 1..Len(cir)
    /\ OpenKey(cir[i], heap) # "none"
    /\ cir' = cir
    /\ \E h \in {[heap EXCEPT ![cir[i].props] = Put(@, OpenKey(cir[i], heap), 0)]} :
       \E r \in {SolveCircuit(cir, h)} : SV_Record(<<"open", i>>, h, r)

\* the switch_spst that stands for a switch_spdt or a button_momentary:
\* same a, b the selected terminal, closed unless the button is released
HandBuilt(c, h) ==
    LET p == h[c.props] IN
    IF c.ctype = "switch_spdt"
    THEN [b |-> IF Get(p, "throw", 0) = 0 THEN c.b
                ELSE <<Get(p, "c_x", c.b[1]), Get(p, "c_y", c.b[2] + 2)>>,
          state |-> 1]
    ELSE [b |-> c.b, state |-> IF Get(p, "pressed", 0) = 1 THEN 1 ELSE 0]

\* component i is replaced by its hand-built switch_spst, then solved
SV_Rebuild(i) ==
    /\ sv.n \in 1..(MaxSolves - 1)
    /\ sv.what[1] # "rebuild"
    /\ i \in 1..Len(cir)
    /\ cir[i].ctype \in {"switch_spdt", "button_momentary"}
    /\ \E hb \in {HandBuilt(cir[i], heap)} :
       \E c \in {[cir EXCEPT ![i] = Component(cir[i].cid, "switch_spst", cir[i].a, hb.b,
                                               cir[i].props, cir[i].meta)]} :
       \E h \in {[heap EXCEPT ![cir[i].props] = {<<"state", hb.state>>}]} :
       \E r \in {SolveCircuit(c, h)} :
          /\ cir' = c
          /\ SV_Record(<<"rebuild", i>>, h, r)

\* the circuits: some sockets, then up to MaxParts other components
Part(ctype, a, b, props) == [ctype |-> ctype, a |-> a, b |-> b, props |-> props]

Sources ==
    { <<>>,
      << Part("socket", <<2, 0>>, <<0, 0>>, {<<"V", 12>>}) >>,
      << Part("socket", <<2, 0>>, <<0, 0>>, {<<"V", 12>>, <<"Iwarn", 2>>}) >>,
      << Part("socket", <<2, 0>>, <<0, 0>>, {<<"V", 12>>, <<"Iwarn", -1>>}) >>,
      << Part("socket", <<2, 0>>, <<0, 0>>, {<<"V", 12>>, <<"Iwarn", 2>>}),
         Part("socket", <<4, 0>>, <<2, 0>>, {<<"Iwarn", 10>>}) >> }

Loads ==
    << Part("resistor", <<2, 0>>, <<0, 0>>, {<<"R", 3>>}),
       Part("resistor", <<4, 0>>, <<0, 0>>, {<<"R", 3>>}),
       Part("resistor", <<0, 2>>, <<0, 0>>, {}),
       Part("resistor", <<2, 0>>, <<0, 2>>, {<<"R", 3>>}),
       Part("wire", <<4, 0>>, <<0, 0>>, {}),
       Part("rheostat", <<2, 0>>, <<0, 0>>, {<<"R", 1>>, <<"Rmin", 6>>, <<"Rmax", 3>>}),
       Part("switch_spst", <<2, 0>>, <<4, 0>>, {<<"state", 1>>}),
       Part("switch_spdt", <<2, 0>>, <<0, 0>>, {<<"throw", 0>>}),
       Part("switch_spdt", <<2, 0>>, <<0, 0>>, {<<"throw", 1>>}),
       Part("switch_sp3t", <<2, 0>>, <<0, 0>>, {<<"throw", 2>>, <<"d_x", 4>>, <<"d_y", 0>>}),
       Part("switch_dpst", <<2, 0>>, <<4, 0>>,
            {<<"state", 1>>, <<"c_x", 2>>, <<"c_y", 0>>, <<"d_x", 0>>, <<"d_y", 0>>}),
       Part("switch_dpdt", <<2, 0>>, <<4, 0>>,
            {<<"d_x", 2>>, <<"d_y", 0>>, <<"e_x", 0>>, <<"e_y", 0>>}),
       Part("button_momentary", <<2, 0>>, <<4, 0>>, {<<"pressed", 1>>}),
       Part("button_momentary", <<2, 0>>, <<0, 0>>, {}) >>

RECURSIVE Pick(_, _)
Pick(S, i) ==
    IF i > Len(Loads) THEN <<>>
    ELSE (IF i \in S THEN << Loads[i] >> ELSE <<>>) \o Pick(S, i + 1)

MkCir(parts) ==
    [k \in 1..Len(parts) |->
        Component(k, parts[k].ctype, parts[k].a, parts[k].b, 2 * k - 1, 2 * k)]

MkHeap(parts) ==
    [j \in 1..(2 * Len(parts)) |-> IF j % 2 = 1 THEN parts[(j + 1) \div 2].props ELSE {}]

\* the loop of test_series_circuit: a socket, resistors rs in series from its
\* a, a wire back to its b
SeriesLoop(rs) ==
    << Part("socket", <<0, 0>>, <<0, 6>>, {<<"V", 12>>, <<"Iwarn", 5>>}) >>
    \o [i \in 1..Len(rs) |->
          Part("resistor", <<6 * (i - 1), 0>>, <<6 * i, 0>>, {<<"R", rs[i]>>})]
    \o << Part("wire", <<6 * Len(rs), 0>>, <<0, 6>>, {}) >>

SeriesLoops == {SeriesLoop(rs) : rs \in UNION {[1..n -> {1, 10, 20, 30}] : n \in 1..MaxSeries}}

\* a socket with one rheostat across it; R, Rmin and Rmax each given or left
\* to the defaults of effective_resistance, the range in either order
RheostatLoop(props) ==
    << Part("socket", <<2, 0>>, <<0, 0>>, {<<"V", 12>>}),
       Part("rheostat", <<2, 0>>, <<0, 0>>, props) >>

RheostatLoops ==
    {RheostatLoop(r \cup range) :
        r \in {{}, {<<"R", 0>>}, {<<"R", 1>>}, {<<"R", 4>>}, {<<"R", 7>>}},
        range \in {{}, {<<"Rmax", 3>>}, {<<"Rmin", 3>>},
                   {<<"Rmin", 3>>, <<"Rmax", 6>>}, {<<"Rmin", 6>>, <<"Rmax", 3>>}}}

Circuits ==
    {src \o Pick(S, 1) :
        src \in Sources,
        S \in {T \in SUBSET (1..Len(Loads)) : Cardinality(T) <= MaxParts}}
    \cup SeriesLoops
    \cup RheostatLoops

InitSolve ==
    \E parts \in Circuits :
    /\ cir = MkCir(parts)
    /\ heap = MkHeap(parts)
    /\ nextCid = Len(parts) + 1
    /\ max_len = 1
    /\ undo_stack = <<>>
    /\ redo_stack = <<>>
    /\ lastRet = "true"
    /\ obs = "t3"
    /\ t3 = T3Idle
    /\ t8 = T8Fresh
    /\ gi = <<>>
    /\ gs = <<>>
    /\ sv = SV0
    /\ ld = <<>>

NextSolve ==
    \/ SV_Solve
    \/ \E i \in 1..(MaxParts + 2) : SV_Open(i)
    \/ \E i \in 1..(MaxParts + 2) : SV_Rebuild(i)

SpecSolve == InitSolve /\ [][NextSolve]_vars

\* ------------------------------------------------------------------ loading
\* ld.obj is the list under "components" of the JSON object to load; a record
\* names its dictionaries by address, or has no "props" / "meta" key at all.
MaxRecs == 2        \* records in a JSON object

\* the records a file can hold: three that name cid, ctype, a and b, and one
\* for each of these keys that lacks it.  props and meta are given by value.
RecordPool ==
    << [cid |-> 1, ctype |-> "resistor", a |-> list(<<0, 0>>), b |-> list(<<2, 0>>),
        props |-> {<<"R", 3>>}, meta |-> {<<"locked", 1>>}],
       [cid |-> 2, ctype |-> "rheostat", a |-> list(<<2, 0>>), b |-> list(<<0, 0>>),
        props |-> {<<"R", 20>>, <<"Rmin", 2>>, <<"Rmax", 8>>}, meta |-> {}],
       [cid |-> 3, ctype |-> "wire", a |-> list(<<2, 0>>), b |-> list(<<4, 0>>)],
       [ctype |-> "wire", a |-> list(<<0, 0>>), b |-> list(<<2, 0>>),
        props |-> {}, meta |-> {}],
       [cid |-> 5, a |-> list(<<0, 0>>), b |-> list(<<2, 0>>), props |-> {}, meta |-> {}],
       [cid |-> 6, ctype |-> "wire", b |-> list(<<2, 0>>), props |-> {}, meta |-> {}],
       [cid |-> 7, ctype |-> "wire", a |-> list(<<0, 0>>), props |-> {}, meta |-> {}] >>

\* the record of template t with its dictionaries at addresses pa and pa + 1
MkRecord(t, pa) ==
    [k \in DOMAIN t |-> IF k = "props" THEN pa ELSE IF k = "meta" THEN pa + 1 ELSE t[k]]

MkObj(ts, base) == [i \in 1..Len(ts) |-> MkRecord(ts[i], base + 2 * i - 1)]

MkObjHeap(ts) ==
    [j \in 1..(2 * Len(ts)) |->
        IF j % 2 = 1
        THEN (IF "props" \in DOMAIN ts[(j + 1) \div 2] THEN ts[(j + 1) \div 2].props ELSE {})
        ELSE (IF "meta" \in DOMAIN ts[j \div 2] THEN ts[j \div 2].meta ELSE {})]

\* it["cid"], it["ctype"], it["a"], it["b"] raise KeyError on a missing key
WellFormed(it) == {"cid", "ctype", "a", "b"} \subseteq DOMAIN it

\* the first record that raises, 0 if none does
FirstBad(obj) ==
    IF \A i \in 1..Len(obj) : WellFormed(obj[i]) THEN 0
    ELSE CHOOSE i \in 1..Len(obj) :
            ~WellFormed(obj[i]) /\ \A j \in 1..(i - 1) : WellFormed(obj[j])

\* the records the loop gets through before it ends or raises
Parsed(obj) == IF FirstBad(obj) = 0 THEN obj ELSE SubSeq(obj, 1, FirstBad(obj) - 1)

LD0(obj) == [obj |-> obj, st |-> "idle", via |-> "none", before |-> <<>>, got |-> <<>>]

LD_Frame == UNCHANGED <<nextCid, max_len, lastRet, obs, t3, t8, gi, gs>>

\* TUIApp.load / CircuitGUI.load: from_json builds a new Circuit and only its
\* return value replaces self.cir; then history.clear, history.record, solve.
\* A KeyError leaves through the except clause before self.cir is assigned.
LD_Load ==
    /\ ld.st = "idle"
    /\ LD_Frame
    /\ IF FirstBad(ld.obj) # 0
       THEN /\ ld' = [ld EXCEPT !.st = "raise", !.via = "load", !.before = CirVal]
            /\ UNCHANGED <<cir, heap, undo_stack, redo_stack, sv>>
       ELSE \E c \in {apply_json_comps(ld.obj, heap)} :
            \E h \in {apply_json_heap(ld.obj, heap)} :
            \E r \in {SolveCircuit(c, h)} :
              /\ cir' = c
              /\ heap' = r.heap
              /\ undo_stack' = << to_json(c) >>
              /\ redo_stack' = <<>>
              /\ sv' = [n |-> 1, what |-> <<"load", 0>>, res |-> r, prev |-> <<>>,
                        wrote |-> r.heap # h]
              /\ ld' = [ld EXCEPT !.st = "ok", !.via = "load", !.before = CirVal]

\* cir.apply_json(obj): clear, then the loop on the circuit itself
LD_ApplyJson ==
    /\ ld.st = "idle"
    /\ LD_Frame
    /\ cir' = apply_json_comps(Parsed(ld.obj), heap)
    /\ heap' = apply_json_heap(Parsed(ld.obj), heap)
    /\ ld' = [ld EXCEPT !.st = IF FirstBad(ld.obj) = 0 THEN "ok" ELSE "raise",
                        !.via = "apply_json", !.before = CirVal]
    /\ UNCHANGED <<undo_stack, redo_stack, sv>>

\* Circuit.from_json(cir.to_json()): ld.got is the new Circuit
LD_RoundTrip ==
    /\ ld.st = "idle"
    /\ LD_Frame
    /\ heap' = apply_json_heap(to_json(cir), heap)
    /\ ld' = [ld EXCEPT !.st = "ok", !.via = "from_json", !.before = CirVal,
                        !.got = apply_json_comps(to_json(cir), heap)]
    /\ UNCHANGED <<cir, undo_stack, redo_stack, sv>>

\* another Circuit object, with the components it holds before
Others ==
    { <<>>,
      << Part("resistor", <<6, 0>>, <<8, 0>>, {<<"R", 9>>}) >>,
      << Part("wire", <<0, 0>>, <<2, 0>>, {}), Part("resistor", <<2, 0>>, <<0, 0>>, {}) >> }

\* d.apply_json(cir.to_json()) on another Circuit d: ld.got is d afterwards
LD_ApplyTo(d) ==
    /\ ld.st = "idle"
    /\ LD_Frame
    /\ \E h \in {heap \o MkHeap(d)} :
          /\ heap' = apply_json_heap(to_json(cir), h)
          /\ ld' = [ld EXCEPT !.st = "ok", !.via = "apply_to", !.before = CirVal,
                              !.got = apply_json_comps(to_json(cir), h)]
    /\ UNCHANGED <<cir, undo_stack, redo_stack, sv>>

\* the JSON objects: up to MaxRecs different records of the pool, in any order
RECURSIVE Objects(_)
Objects(n) ==
    IF n = 0 THEN { <<>> }
    ELSE Objects(n - 1) \cup
         { Append(o, i) : o \in {x \in Objects(n - 1) : Len(x) = n - 1},
                          i \in 1..Len(RecordPool) }

InitLoad ==
    \E src \in { <<>>, << Part("socket", <<2, 0>>, <<0, 0>>, {<<"V", 12>>}) >> } :
    \E S \in {T \in SUBSET (1..Len(Loads)) : Cardinality(T) <= 1} :
    \E locked \in BOOLEAN :
    \E o \in {x \in Objects(MaxRecs) : \A i, j \in 1..Len(x) : x[i] = x[j] => i = j} :
    \E parts \in {src \o Pick(S, 1)} :
    \E ts \in {[i \in 1..Len(o) |-> RecordPool[o[i]]]} :
    /\ locked => parts # <<>>
    /\ cir = MkCir(parts)
    /\ heap = [j \in 1..(2 * Len(parts)) |->
                 IF j = 2 /\ locked THEN {<<"locked", 1>>} ELSE MkHeap(parts)[j]]
              \o MkObjHeap(ts)
    /\ nextCid = Len(parts) + 1
    /\ max_len = 1
    /\ undo_stack = <<>>
    /\ redo_stack = <<>>
    /\ lastRet = "true"
    /\ obs = "t3"
    /\ t3 = T3Idle
    /\ t8 = T8Fresh
    /\ gi = <<>>
    /\ gs = <<>>
    /\ sv = SV0
    /\ ld = LD0(MkObj(ts, 2 * Len(parts)))

NextLoad ==
    \/ LD_Load
    \/ LD_ApplyJson
    \/ LD_RoundTrip
    \/ \E d \in Others : LD_ApplyTo(d)

SpecLoad == InitLoad /\ [][NextLoad]_vars

\* ------------------------------------------------------------------ claims
EditStep ==
    \/ \E pl \in Placements : add(pl)
    \/ \E p \in Cursors : delete_at(p)
    \/ \E i \in 1..MaxCids, v \in {0, 1} : SetProp(i, v)

RecordStep == record \/ \E p \in Cursors : TuiToggle(p)

TopIsCurrent(u, c, h) == u # <<>> /\ JsonEq(Last(u), to_json(c), h)

\* C2: snapshots are deep copies: an in-place edit of the live circuit (a
\* property change, an added or a deleted component) leaves the value of every
\* snapshot on the undo and redo stacks unchanged
C2_SnapshotsAreDeepCopies ==
    [][EditStep =>
        /\ StackVal(undo_stack', heap') = StackVal(undo_stack, heap)
        /\ StackVal(redo_stack', heap') = StackVal(redo_stack, heap)]_vars

\* C3: record in S1, edit to S2 # S1, record: then undo returns true and
\* restores S1, and a following redo returns true and restores S2 (with a
\* capacity of at least two snapshots)
C3_UndoRestoresRecordedState ==
    max_len >= 2 =>
        /\ t3.st = "U" => (t3.ret = "true" /\ CirVal = t3.s1)
        /\ t3.st = "UR" => (t3.ret = "true" /\ CirVal = t3.s2)

\* C8: after records and edits only, ending with a record on S: undo until it
\* returns false (k times), then k redos, leave the circuit equal to S, the
\* undo stack as it was before the undos, and the redo stack empty
C8_UndoAllRedoAll ==
    t8.ph = "done" =>
        /\ ~t8.bad
        /\ CirVal = t8.S
        /\ StackVal(undo_stack, heap) = t8.U0
        /\ redo_stack = <<>>

C8_Witness == t8.ph = "done" /\ t8.k >= 1 /\ ~t8.bad /\ Len(t8.S) >= 1

\* C9: right after every record, and after every undo or redo that returns
\* true, the top of the undo stack is value-equal to the JSON projection of the
\* current circuit
C9_TopIsCurrentCircuit ==
    [][(RecordStep \/ (undo /\ lastRet' = "true") \/ (redo /\ lastRet' = "true"))
        => TopIsCurrent(undo_stack', cir', heap')]_vars

C9_Witness ==
    /\ t3.st = "U"
    /\ t3.ret = "true"
    /\ Len(cir) >= 1
    /\ TopIsCurrent(undo_stack, cir, heap)

\* C10: undo with fewer than two entries returns false and changes nothing; redo
\* with an empty redo stack returns false and changes nothing; no undo or redo
\* empties a non-empty undo stack
C10_FailedUndoRedoChangeNothing ==
    [][/\ (undo /\ Len(undo_stack) < 2) =>
            (lastRet' = "false" /\ UNCHANGED <<heap, cir, undo_stack, redo_stack>>)
       /\ (redo /\ Len(redo_stack) = 0) =>
            (lastRet' = "false" /\ UNCHANGED <<heap, cir, undo_stack, redo_stack>>)
       /\ ((undo \/ redo) /\ undo_stack # <<>>) => undo_stack' # <<>>]_vars

C10_Witness ==
    /\ lastRet = "false"
    /\ Len(undo_stack) = 1
    /\ Len(cir) >= 1
    /\ redo_stack = <<>>

\* the newest n entries of s, in order
Newest(s, n) == IF Len(s) > n THEN SubSeq(s, Len(s) - n + 1, Len(s)) ELSE s

\* C11: record on a circuit whose projection differs from the top snapshot, or
\* on an empty history, appends one snapshot equal to the current circuit and
\* empties the redo stack; record on a circuit equal to the top appends
\* nothing; an empty redo stack stays empty until an undo returns true
C11_RecordAppendsAndClearsRedo ==
    [][/\ (record /\ ~TopIsCurrent(undo_stack, cir, heap)) =>
            /\ StackVal(undo_stack', heap')
                 = Newest(Append(StackVal(undo_stack, heap), CirVal), max_len)
            /\ Last(StackVal(undo_stack', heap')) = JsonVal(to_json(cir'), heap')
            /\ redo_stack' = <<>>
       /\ (record /\ TopIsCurrent(undo_stack, cir, heap)) =>
            StackVal(undo_stack', heap') = StackVal(undo_stack, heap)
       /\ (redo_stack = <<>> /\ ~(undo /\ lastRet' = "true")) =>
            redo_stack' = <<>>]_vars

C11_Witness ==
    /\ t3.st = "R2"
    /\ Len(t3.s1) # Len(t3.s2)
    /\ Len(undo_stack) >= 2
    /\ redo_stack = <<>>
    /\ TopIsCurrent(undo_stack, cir, heap)

\* C12: the undo stack never holds more than max_len snapshots; a record that
\* would exceed the capacity drops the oldest and keeps the newest max_len in
\* order
C12_CapacityBound ==
    /\ [](Len(undo_stack) <= max_len)
    /\ [][(record /\ ~TopIsCurrent(undo_stack, cir, heap) /\ Len(undo_stack) = max_len) =>
            /\ Len(undo_stack') = max_len
            /\ \A i \in 1..(max_len - 1) :
                  JsonVal(undo_stack'[i], heap') = JsonVal(undo_stack[i + 1], heap)
            /\ JsonVal(undo_stack'[max_len], heap') = CirVal]_vars

C12_Witness ==
    /\ max_len = 1
    /\ t3.st = "R2"
    /\ Len(t3.s1) # Len(t3.s2)
    /\ Len(undo_stack) = max_len
    /\ TopIsCurrent(undo_stack, cir, heap)

\* ------------------------------------------------------- goal-seek claims
Returned == gs.pc = "done"

VarKnown == CompIndex(cir, gi.var_cid) # 0

SameProp(d1, d2, k) == Has(d1, k) = Has(d2, k) /\ Get(d1, k, 0) = Get(d2, k, 0)

\* C1: when goal_seek_parameter returns ok = false, props[var_prop] of the
\* variable component is in the state it had before the call: set to the same
\* value, or not set at all.
C1_FailureRestoresProperty ==
    (Returned /\ ~gs.out.ok /\ VarKnown)
        => SameProp(VarProps(heap), gs.pre, gi.var_prop)

\* C4: when goal_seek_parameter returns ok = true, the live props[var_prop] of
\* the variable component equals result.value.
C4_SuccessLeavesWinningValue ==
    (Returned /\ gs.out.ok)
        => /\ Has(VarProps(heap), gi.var_prop)
           /\ Get(VarProps(heap), gi.var_prop, 0) = gs.out.value

\* the measurement is the resistance of the variable resistor itself, m(x) = x
\* on [lo, hi]: strictly monotone, attaining every target of [lo, hi]
MeasuresItself ==
    /\ gi.var_cid = 2 /\ gi.var_prop = "R"
    /\ gi.measure = [cid |-> 2, field |-> "R", abs |-> FALSE]
    /\ cir[2].ctype = "resistor"
    /\ ~gi.reject

RootInBounds ==
    /\ gi.lo # gi.hi
    /\ Min2(gi.lo, gi.hi) <= gi.target
    /\ gi.target <= Max2(gi.lo, gi.hi)

\* C5: for a monotone measurement whose root lies in [lo, hi], the ends
\* included, auto and bisect return ok = true within max_iter iterations when
\* max_iter halvings reach the tolerance (2^MaxIterMax exceeds the width of
\* every search explored).
C5_BracketedBisectionConverges ==
    (Returned /\ MeasuresItself /\ RootInBounds
        /\ gi.method \in {"auto", "bisect"} /\ gi.max_iter = MaxIterMax)
        => gs.out.ok /\ gs.out.iterations <= gi.max_iter

\* C6: when goal_seek_parameter returns ok = true, error = achieved - target,
\* |error| <= max(tol_abs, tol_rel * max(1, |target|, |achieved|)), and
\* achieved is what a solve with the variable at result.value measured.
C6_SuccessWithinTolerance ==
    (Returned /\ gs.out.ok)
        => /\ gs.out.target = gi.target
           /\ gs.out.error = gs.out.achieved - gs.out.target
           /\ \/ Abs(gs.out.error) <= gi.tol_abs
              \/ gi.tol_rel[2] * Abs(gs.out.error)
                    <= gi.tol_rel[1] * Max2(1, Max2(Abs(gi.target), Abs(gs.out.achieved)))
           /\ \E s \in gs.log :
                 s.x = gs.out.value /\ ~s.none /\ s.m = gs.out.achieved

C6_Witness ==
    /\ Returned /\ gs.out.ok
    /\ gs.out.error # 0
    /\ gs.out.iterations >= 2

\* C7: every call of goal_seek_parameter returns, with iterations <= max_iter,
\* after at most 3 solves for the bounds and the midpoint, at most 24 in the
\* 12 bracketing steps and at most one per iteration of the solve loop.
C7_SolveBudget ==
    /\ gs.out.iterations <= gi.max_iter
    /\ gs.nb <= 3
    /\ gs.k <= BRACKET_STEPS
    /\ gs.nk <= 2 * gs.k
    /\ gs.ni <= gs.out.iterations
    /\ Cardinality(gs.log) <= gs.nb + gs.nk + gs.ni

\* the steps the call can still take: those left in the loop, in the
\* bracketing phase, and one for each phase to come
Variant ==
    CASE gs.pc = "done" -> 0
      [] gs.pc = "loop" -> 1 + (gi.max_iter - gs.it)
      [] gs.pc = "bracket" -> 3 + gi.max_iter + (BRACKET_STEPS - gs.k)
      [] gs.pc = "bounds" -> 4 + gi.max_iter + BRACKET_STEPS
      [] gs.pc = "call" -> 5 + gi.max_iter + BRACKET_STEPS

SockIdx(c) == {i \in 1..Len(c) : c[i].ctype = "socket"}

Endpoints(c) == {c[i].a : i \in 1..Len(c)} \cup {c[i].b : i \in 1..Len(c)}

\* the number of unknowns of the system solved for the circuit as it stands
Unknowns == NumNodes(Expand(cir, 1, heap), Ground(cir)) + NumSources(Expand(cir, 1, heap))

\* the ground the claim names: the b of the first socket, else the least endpoint
C13_Ground ==
    IF SockIdx(cir) # {} THEN cir[CHOOSE i \in SockIdx(cir) : \A j \in SockIdx(cir) : i <= j].b
    ELSE CHOOSE p \in Endpoints(cir) : \A q \in Endpoints(cir) : p = q \/ PointLess(p, q)

\* C13: when a solve succeeds on a circuit with at least one unknown, node_v
\* holds the ground node (the b of the first socket, or the lexicographically
\* least endpoint when there is no socket) and its voltage is exactly 0.
C13_GroundIsZero ==
    (sv.n >= 1 /\ sv.res.ok /\ Unknowns >= 1) =>
        /\ C13_Ground \in DOMAIN sv.res.node_v
        /\ sv.res.node_v[C13_Ground] = QZero

C13_Witness ==
    /\ sv.n >= 1 /\ sv.res.ok /\ Unknowns >= 2
    /\ SockIdx(cir) # {}
    /\ \E n \in DOMAIN sv.res.node_v : sv.res.node_v[n] # QZero
    /\ sv.res.node_v[C13_Ground] = QZero

\* C14: a singular system gives ok = false, singular = true, exactly one
\* warning and empty node_v, comp_i, comp_flags and comp_branch_i; a successful
\* solve has singular = false.
C14_SingularResult ==
    sv.n >= 1 =>
        /\ sv.res.singular =>
              /\ ~sv.res.ok
              /\ Len(sv.res.warnings) = 1
              /\ sv.res.node_v = <<>> /\ sv.res.comp_i = <<>>
              /\ sv.res.comp_flags = <<>> /\ sv.res.comp_branch_i = <<>>
        /\ sv.res.ok => ~sv.res.singular
        /\ sv.res.singular <=>
              (Unknowns >= 1 /\ solve_linear(Matrix(Expand(cir, 1, heap), Ground(cir), heap),
                                             Rhs(Expand(cir, 1, heap), Ground(cir), heap)).none)

C14_Witness ==
    /\ sv.n >= 2 /\ sv.what[1] = "open"
    /\ sv.prev.ok /\ sv.prev.node_v # <<>>
    /\ sv.res.singular /\ sv.res.node_v = <<>> /\ Len(sv.res.warnings) = 1

\* C15: an open branch never makes the solve fail.  When a circuit solved with
\* ok = true while a switch_spst, a switch_dpst or a button was closed, the
\* same circuit with that component opened solves with ok = true too, the
\* component is flagged open and its reported current is 0.
C15_OpenBranchStillSolves ==
    (sv.n >= 2 /\ sv.what[1] = "open" /\ sv.prev.ok) =>
        /\ sv.res.ok
        /\ cir[sv.what[2]].cid \in DOMAIN sv.res.comp_flags
        /\ sv.res.comp_flags[cir[sv.what[2]].cid] = "open"
        /\ sv.res.comp_i[cir[sv.what[2]].cid] = QZero

\* the largest Iwarn among all sockets of the circuit
LargestIwarn ==
    CHOOSE w \in {Iwarn(cir[i], heap) : i \in SockIdx(cir)} :
        \A i \in SockIdx(cir) : Iwarn(cir[i], heap) <= w

Flag(cid) == IF cid \in DOMAIN sv.res.comp_flags THEN sv.res.comp_flags[cid] ELSE "none"

\* C16: after a successful solve a component that is not a socket is flagged
\* overcurrent exactly when some socket is flagged source_overcurrent, the
\* component is not flagged open and the magnitude of its current exceeds the
\* largest Iwarn among all sockets; no socket is flagged overcurrent.
C16_OvercurrentFlag ==
    (sv.n >= 1 /\ sv.res.ok /\ Unknowns >= 1) =>
        \A i \in 1..Len(cir) :
            IF cir[i].ctype = "socket"
            THEN /\ Flag(cir[i].cid) # "overcurrent"
                 /\ Flag(cir[i].cid) = "source_overcurrent" <=>
                        QLess(QInt(Iwarn(cir[i], heap)), QAbs(sv.res.comp_i[cir[i].cid]))
            ELSE Flag(cir[i].cid) = "overcurrent" <=>
                    /\ \E j \in SockIdx(cir) : Flag(cir[j].cid) = "source_overcurrent"
                    /\ Flag(cir[i].cid) # "open"
                    /\ QLess(QInt(LargestIwarn), QAbs(sv.res.comp_i[cir[i].cid]))

FlagIn(r, cid) == IF cid \in DOMAIN r.comp_flags THEN r.comp_flags[cid] ELSE "none"

CurrentIn(r, cid) == IF cid \in DOMAIN r.comp_i THEN r.comp_i[cid] ELSE QZero

\* C17: a circuit with a switch_spdt (throw 0 or 1) or a button_momentary
\* (pressed 0 or 1) solves to the same ok, singular, node voltages and source
\* currents, and the same current and flag of that component, as the circuit
\* in which the component is replaced by the hand-built switch_spst.
C17_ExpansionEqualsHandBuilt ==
    (sv.what[1] = "rebuild") =>
        /\ sv.res.ok = sv.prev.ok
        /\ sv.res.singular = sv.prev.singular
        /\ sv.res.node_v = sv.prev.node_v
        /\ \A i \in SockIdx(cir) :
              CurrentIn(sv.res, cir[i].cid) = CurrentIn(sv.prev, cir[i].cid)
        /\ CurrentIn(sv.res, cir[sv.what[2]].cid) = CurrentIn(sv.prev, cir[sv.what[2]].cid)
        /\ FlagIn(sv.res, cir[sv.what[2]].cid) = FlagIn(sv.prev, cir[sv.what[2]].cid)

\* C18: solve_circuit called twice in succession on the same circuit, with no
\* edit in between, returns equal ok, singular, node_v, comp_i, comp_branch_i,
\* comp_flags and warnings, also when a rheostat had R outside [Rmin, Rmax]
\* before the first call.
C18_SolveIsIdempotent ==
    (sv.n >= 2 /\ sv.what[1] = "solve") =>
        /\ sv.res.ok = sv.prev.ok
        /\ sv.res.singular = sv.prev.singular
        /\ sv.res.node_v = sv.prev.node_v
        /\ sv.res.comp_i = sv.prev.comp_i
        /\ sv.res.comp_branch_i = sv.prev.comp_branch_i
        /\ sv.res.comp_flags = sv.prev.comp_flags
        /\ sv.res.warnings = sv.prev.warnings

C18_Witness ==
    /\ sv.n = 2 /\ sv.what[1] = "solve"
    /\ sv.wrote
    /\ sv.res.ok
    /\ \E i \in 1..Len(cir) : cir[i].ctype = "rheostat" /\ sv.res.comp_i[cir[i].cid] # QZero
    /\ sv.res.comp_i = sv.prev.comp_i

\* ---- claims about loading (SpecLoad)
\* the components of a Circuit by value, in insertion order
CompVal(c, h) ==
    [i \in 1..Len(c) |->
        [cid |-> c[i].cid, ctype |-> c[i].ctype, a |-> c[i].a, b |-> c[i].b,
         props |-> h[c[i].props], meta |-> h[c[i].meta]]]

\* C19: Circuit.from_json(c.to_json()) has the identifiers of c in the same
\* order and, for each, the same kind, endpoints a and b, property map and
\* metadata map; apply_json(c.to_json()) on another Circuit yields the same.
C19_JsonRoundTrip ==
    (ld.via \in {"from_json", "apply_to"}) => CompVal(ld.got, heap) = CompVal(cir, heap)

C19_Witness ==
    /\ ld.via = "apply_to"
    /\ Len(cir) >= 2
    /\ \E i \in 1..Len(cir) : heap[cir[i].meta] # {} /\ ld.got[i].meta # cir[i].meta
    /\ \E i \in 1..Len(cir) : heap[cir[i].props] # {}
    /\ CompVal(ld.got, heap) = CompVal(cir, heap)

\* the identifier, kind and endpoints of every record of a JSON object
ObjParts(obj) ==
    [i \in 1..Len(obj) |->
        [cid |-> obj[i].cid, ctype |-> obj[i].ctype, a |-> obj[i].a.items, b |-> obj[i].b.items]]

CirParts(c) ==
    [i \in 1..Len(c) |-> [cid |-> c[i].cid, ctype |-> c[i].ctype, a |-> c[i].a, b |-> c[i].b]]

\* C20: loading is atomic.  After a load through from_json or apply_json the
\* circuit either consists of exactly the components of the object or, when a
\* record lacks cid, ctype, a or b and the load raises, is exactly what it was
\* before the load.
C20_LoadIsAtomic ==
    (ld.via \in {"load", "apply_json"}) =>
        IF ld.st = "ok" THEN CirParts(cir) = ObjParts(ld.obj)
        ELSE CirVal = ld.before

\* a single loop: the socket first, the resistors chained from its a, the wire
\* last and back to its b
IsSeriesLoop ==
    /\ Len(cir) >= 3
    /\ cir[1].ctype = "socket" /\ cir[Len(cir)].ctype = "wire"
    /\ \A i \in 2..(Len(cir) - 1) : cir[i].ctype = "resistor"
    /\ cir[2].a = cir[1].a /\ cir[Len(cir)].b = cir[1].b
    /\ \A i \in 2..(Len(cir) - 1) : cir[i + 1].a = cir[i].b
    /\ Cardinality(Endpoints(cir)) = Len(cir)

RECURSIVE SumR(_)
SumR(i) == IF i < 2 THEN 0 ELSE Get(heap[cir[i].props], "R", R_DEFAULT) + SumR(i - 1)

SeriesR == SumR(Len(cir) - 1)

SeriesV == Get(heap[cir[1].props], "V", V_DEFAULT)

LabelsOf(c, h) ==
    CASE c.ctype = "switch_spdt" -> IF Get(h[c.props], "throw", 0) = 0 THEN {"t0"} ELSE {"t1"}
      [] c.ctype = "switch_sp3t" ->
            IF Get(h[c.props], "throw", 0) <= 0 THEN {"t0"}
            ELSE IF Get(h[c.props], "throw", 0) = 1 THEN {"t1"} ELSE {"t2"}
      [] c.ctype \in {"switch_dpst", "switch_dpdt"} -> {"p1", "p2"}
      [] c.ctype = "button_momentary" -> {"m"}
      [] OTHER -> {"main"}

\* labels in alphabetical order
Alphabet == <<"m", "main", "p1", "p2", "t0", "t1", "t2">>

Smallest(labs) ==
    Alphabet[CHOOSE k \in 1..Len(Alphabet) :
                Alphabet[k] \in labs /\ \A j \in 1..(k - 1) : Alphabet[j] \notin labs]

\* C25: after a successful solve with non-empty maps comp_branch_i holds, for
\* every component, one current per solver surrogate under its label (main,
\* t0/t1/t2, p1/p2 or m), and comp_i of a component that is not a socket is its
\* main branch current if there is one, else that of the alphabetically
\* smallest label.
C25_BranchCurrents ==
    (sv.n >= 1 /\ sv.res.ok /\ sv.res.comp_i # <<>>) =>
        /\ DOMAIN sv.res.comp_branch_i = {cir[i].cid : i \in 1..Len(cir)}
        /\ \A i \in 1..Len(cir) :
              /\ DOMAIN sv.res.comp_branch_i[cir[i].cid] = LabelsOf(cir[i], heap)
              /\ cir[i].ctype # "socket" =>
                    sv.res.comp_i[cir[i].cid] =
                        sv.res.comp_branch_i[cir[i].cid]
                            [IF "main" \in LabelsOf(cir[i], heap) THEN "main"
                             ELSE Smallest(LabelsOf(cir[i], heap))]

C25_Witness ==
    /\ sv.n >= 1 /\ sv.res.ok
    /\ \E i \in 1..Len(cir) :
          /\ cir[i].ctype = "switch_dpst"
          /\ sv.res.comp_branch_i[cir[i].cid]["p1"] # sv.res.comp_branch_i[cir[i].cid]["p2"]
          /\ sv.res.comp_i[cir[i].cid] = sv.res.comp_branch_i[cir[i].cid]["p1"]
          /\ sv.res.comp_i[cir[i].cid] # QZero

\* the voltage across component c in result r (a node missing from node_v is at 0)
Across(r, c) ==
    QSub(IF c.a \in DOMAIN r.node_v THEN r.node_v[c.a] ELSE QZero,
         IF c.b \in DOMAIN r.node_v THEN r.node_v[c.b] ELSE QZero)

\* the range of a rheostat with props p, in either order of Rmin and Rmax
RangeOf(p) ==
    LET Rmin == Get(p, "Rmin", 0)
        Rmax == Get(p, "Rmax", Max2(Get(p, "R", R_DEFAULT), R_DEFAULT))
    IN Min2(Rmin, Rmax)..Max2(Rmin, Rmax)

\* C26: a solve_circuit that reaches stamping leaves every rheostat's stored R
\* inside [min(Rmin, Rmax), max(Rmin, Rmax)], leaves it as it was when it was
\* already inside, and the solver uses max(R, 1e-6) of the stored value.
C26_RheostatClamp ==
    [][(sv'.n = sv.n + 1 /\ Unknowns' >= 1) =>
        \A i \in 1..Len(cir) :
            cir[i].ctype = "rheostat" =>
                /\ Get(heap'[cir[i].props], "R", R_DEFAULT) \in RangeOf(heap[cir[i].props])
                /\ Has(heap'[cir[i].props], "R")
                /\ Get(heap[cir[i].props], "R", R_DEFAULT) \in RangeOf(heap[cir[i].props])
                      => Get(heap'[cir[i].props], "R", R_DEFAULT)
                            = Get(heap[cir[i].props], "R", R_DEFAULT)
                /\ sv'.res.ok =>
                      sv'.res.comp_i[cir[i].cid] =
                          QDiv(Across(sv'.res, cir[i]),
                               QInt(Max2(Get(heap'[cir[i].props], "R", R_DEFAULT), R_FLOOR)))]_vars

C26_Witness ==
    /\ sv.n = 2 /\ sv.wrote /\ sv.res.ok
    /\ \E i \in 1..Len(cir) :
          /\ cir[i].ctype = "rheostat"
          /\ heap[cir[i].props] = {<<"R", 3>>, <<"Rmin", 6>>, <<"Rmax", 3>>}
          /\ sv.res.comp_i[cir[i].cid] = QInt(4)

\* the identifiers of the components of circuit c
Cids(c) == {c[i].cid : i \in 1..Len(c)}

\* dictionary d without key k
Without(d, k) == {p \in d : p[1] # k}

\* the dictionaries solve_circuit may write, each with the one key it may
\* write: R of a rheostat; before the solve of an "open" step the front end
\* has written the state of the switch it opened
Writable(c, h, what) ==
    {<<c[i].props, "R">> : i \in {k \in 1..Len(c) : c[k].ctype = "rheostat"}}
    \cup (IF what[1] = "open"
          THEN {<<c[what[2]].props, OpenKey(c[what[2]], h)>>} ELSE {})

\* C30: solve_circuit adds, removes and reorders no component, changes no
\* identifier, kind, endpoint, metadata entry or property except R of
\* rheostats (so no switch_spst surrogate enters the circuit), and every key of
\* comp_i, comp_flags and comp_branch_i is the identifier of a component.
C30_SolveLeavesCircuit ==
    [][(sv'.n = sv.n + 1) =>
        /\ sv'.what[1] \in {"solve", "open"} =>
              /\ cir' = cir
              /\ DOMAIN heap' = DOMAIN heap
              /\ \A j \in DOMAIN heap :
                    \/ heap'[j] = heap[j]
                    \/ \E w \in Writable(cir, heap, sv'.what) :
                          w[1] = j /\ Without(heap'[j], w[2]) = Without(heap[j], w[2])
        /\ DOMAIN sv'.res.comp_i \subseteq Cids(cir')
        /\ DOMAIN sv'.res.comp_flags \subseteq Cids(cir')
        /\ DOMAIN sv'.res.comp_branch_i \subseteq Cids(cir')]_vars

C30_Witness ==
    /\ sv.n = 1 /\ sv.wrote /\ sv.res.ok
    /\ \E i \in 1..Len(cir) : cir[i].ctype = "rheostat"
    /\ \E i \in 1..Len(cir) :
          cir[i].ctype = "switch_dpst" /\ DOMAIN sv.res.comp_branch_i[cir[i].cid] = {"p1", "p2"}
    /\ DOMAIN sv.res.comp_i = Cids(cir)
    /\ \A i \in 1..Len(cir) : cir[i].ctype # "switch_spst"

\* ---- further goal-seek claims (SpecGS)
\* the entries of result.history whose measurement is the target: error 0
ZeroAt == {k \in 1..Len(gs.out.history) : gs.out.history[k][2] = gi.target}

FirstZero == CHOOSE k \in ZeroAt : \A j \in ZeroAt : k <= j

\* C22: with method auto or bisect, an error of exactly 0 at one of the two
\* evaluated bounds or at a bisection midpoint ends the search there: ok = true,
\* value is that point, error is 0, and no point is evaluated after it.
C22_ExactZeroTerminates ==
    (Returned /\ gi.method \in {"auto", "bisect"} /\ ZeroAt # {})
        => /\ gs.out.ok
           /\ gs.out.value = gs.out.history[FirstZero][1]
           /\ gs.out.error = 0
           /\ Len(gs.out.history) = Max2(FirstZero, 2)

\* the points evaluated successfully during the call
Successful == {s \in gs.log : ~s.none}

\* C23: a call that returns ok = false after both bounds were evaluated
\* successfully reports the point of smallest |e| among all points evaluated
\* successfully during the call; no entry of result.history is closer to the
\* target than result.error.
C23_FailureReportsBest ==
    (Returned /\ ~gs.out.ok /\ Len(gs.out.history) >= 2)
        => /\ \E s \in Successful :
                 /\ s.x = gs.out.value /\ s.m = gs.out.achieved
                 /\ gs.out.error = s.m - gi.target
           /\ \A s \in Successful : Abs(gs.out.error) <= Abs(s.m - gi.target)
           /\ \A k \in 1..Len(gs.out.history) :
                 Abs(gs.out.error) <= Abs(gs.out.history[k][2] - gi.target)

\* ---- claims about two calls (SpecTwice)
\* C24: a call with an unknown var_cid or with lo = hi returns ok = false with a
\* message, solves nothing and changes no property; a call with lo > hi returns
\* the result, and leaves the circuit, of the call with the bounds exchanged.
C24_DegenerateBounds ==
    /\ [][(gs.pc = "call" /\ (~VarKnown \/ gi.lo = gi.hi))
            => /\ gs'.pc = "done"
               /\ ~gs'.out.ok /\ gs'.out.message # ""
               /\ gs'.log = {} /\ gs'.cache = {}
               /\ heap' = heap /\ cir' = cir]_vars
    /\ []((Returned /\ gs.again) => (gs.out = gs.first.out /\ heap = gs.first.heap))

C24_Witness ==
    /\ Returned /\ gs.again
    /\ gi.lo < gi.hi
    /\ gs.out.ok /\ gs.out.iterations >= 2
    /\ gs.out = gs.first.out
    /\ heap = gs.first.heap /\ heap # gs.heap0

\* ---- goal-seek claims, continued (SpecGS)
\* C27: goal_seek_parameter does not return ok = false when a point it
\* evaluated successfully during the call, the bounds and the points of the
\* bracketing phase included, meets the stop criterion
\* |e| <= max(tol_abs, tol_rel * max(1, |target|, |achieved|)).
C27_NoFailureWithDonePoint ==
    (Returned /\ ~gs.out.ok)
        => \A s \in Successful : ~is_done(s.m - gi.target, s.m)

\* C28: at the start of every iteration of the bisection loop the stored
\* endpoint errors fa and fb have strictly opposite signs or one of them is 0;
\* an update replaces no endpoint whose error is 0 and leaves no interval whose
\* endpoint errors have the same sign.
C28_BisectionKeepsBracket ==
    /\ []((gs.pc = "loop" /\ gs.use_bisect /\ gs.it < gi.max_iter)
            => Brackets(gs.fa, gs.fb))
    /\ [][(gs.pc = "loop" /\ gs.use_bisect /\ gs'.pc = "loop")
            => /\ gs.fa = 0 => (gs'.a = gs.a /\ gs'.fa = gs.fa)
               /\ gs.fb = 0 => (gs'.b = gs.b /\ gs'.fb = gs.fb)
               /\ Brackets(gs'.fa, gs'.fb)]_vars

\* the bracketing phase has handed an expanded bracket to the solve phase
HandedOver ==
    gs.pc \in {"loop", "done"} /\ gi.method = "auto" /\ gs.bracketed /\ gs.k >= 1

\* error e and measurement m come from a successful evaluation at x
EvaluatedAt(x, e, m) ==
    \E s \in Successful : s.x = x /\ s.m = m /\ e = s.m - gi.target

\* C29: the bracket that the bracketing phase of method auto hands to the
\* solve phase carries, for each bound, the error and the measurement of a
\* successful evaluation at exactly that bound, also when an evaluation at an
\* expanded bound failed.
C29_BracketCarriesItsErrors ==
    HandedOver => /\ EvaluatedAt(gs.lo, gs.e_lo, gs.m_lo)
                  /\ EvaluatedAt(gs.hi, gs.e_hi, gs.m_hi)

====
